---- MODULE Spec2Model ----
(***************************************************************************)
(* Undo/redo command history of the data grid (useDataGridUndoRedo):       *)
(* the history store (undo stack, redo stack, pending flag), the edit      *)
(* batcher (pending map and debounce timer), the three kinds of history    *)
(* entry with their undo/redo replay functions, and a host grid that       *)
(* mutates its data array and then calls the tracking entry points.        *)
(***************************************************************************)
EXTENDS Integers, Sequences, FiniteSets, TLC

(* ------------------------------------------------------------------ *)
(* Bounds of the model                                                  *)
(* ------------------------------------------------------------------ *)

\* Number of handler calls / host events explored from the initial state.
MaxSteps == 4

\* maxHistory values the host may configure: 0..MaxHistoryProp.
MaxHistoryProp == 2

\* Replay of a single entry against an arbitrary array: the longest current
\* array and the longest recorded list of rows or updates.
MaxReplayLen == 3
MaxRecorded == 3
MaxRecordedUpdates == 2

\* The store driven directly (subscribe, unsubscribe and its operations): the
\* number of calls in a run.
MaxStoreSteps == 5

\* SpecLive: the number of calls of the host before the timer is left alone.
MaxLiveSteps == 3

\* SpecTrack: the number of calls and timer firings in a run.
MaxTrackSteps == 3

\* SpecUnwind: the number of tracked host mutations and timer firings before
\* the history is unwound.
MaxUnwindSteps == 3

\* Column ids and row ids the host works with.
Columns == <<"c1", "c2">>
InitialRowIds == <<"r1", "r2">>
FreshRowIds == <<"r3">>

VARIABLES
    undoStack,          \* stateRef.current.undoStack
    redoStack,          \* stateRef.current.redoStack
    hasPendingChanges,  \* stateRef.current.hasPendingChanges
    pendingUpdates,     \* pendingUpdatesRef.current: Map in insertion order
    batchTimeout,       \* batchTimeoutRef.current: null, or the handle of a
                        \* timer that is armed or was cleared
    timers,             \* number of timers set and neither fired nor cleared
    listeners,          \* listenersRef.current: Set in insertion order
    keydown,            \* the keydown event at the window and what it led to
    data,               \* propsRef.current.data (the host's array)
    maxHistory,         \* propsRef.current.maxHistory
    enabled,            \* propsRef.current.enabled
    mounted,            \* FALSE once the cleanup effect has run
    nextUid,            \* identity of the next HistoryEntry object created
    freshUsed,          \* how many of FreshRowIds the host has handed out
    lastCall,           \* history: what the last handler call did
    batchLog,           \* history: raw edits accepted since the last flush/clear
    pushLog,            \* history: every entry pushed since Init or the last clear
    undoLog,            \* history: entries returned by the current run of undos
    phase,              \* history: shape of the run so far (see KeepTracking)
    afterOp,            \* history: data right after the last host mutation
    steps               \* number of events so far

vars == <<undoStack, redoStack, hasPendingChanges, pendingUpdates, batchTimeout,
          timers, listeners, keydown, data, maxHistory, enabled, mounted, nextUid, freshUsed, lastCall,
          batchLog, pushLog, undoLog, phase, afterOp, steps>>

(* ------------------------------------------------------------------ *)
(* Sequence helpers                                                     *)
(* ------------------------------------------------------------------ *)

Range(s) == {s[i] : i \in DOMAIN s}

Reverse(s) == [i \in 1..Len(s) |-> s[Len(s) + 1 - i]]

\* The last n elements of s (all of s when it is shorter).
LastN(s, n) == IF Len(s) <= n THEN s ELSE SubSeq(s, Len(s) - n + 1, Len(s))

\* Array.prototype.splice(idx, 1) with a 0-based idx, on a 1-based sequence.
splice1(arr, idx) ==
    IF idx < 0 \/ idx >= Len(arr) THEN arr
    ELSE SubSeq(arr, 1, idx) \o SubSeq(arr, idx + 2, Len(arr))

\* indicesToRemove.sort((a, b) => b - a): insertion into a descending list.
RECURSIVE sortDescending(_)
sortDescending(s) ==
    IF s = <<>> THEN <<>>
    ELSE LET rest == sortDescending(Tail(s))
             x == Head(s)
             k == Cardinality({i \in DOMAIN rest : rest[i] > x})
         IN SubSeq(rest, 1, k) \o <<x>> \o SubSeq(rest, k + 1, Len(rest))

(* ------------------------------------------------------------------ *)
(* Rows, row identity, pending keys                                     *)
(* ------------------------------------------------------------------ *)

\* A row object of the host: its id and its cells (column id -> value).
Row(id, cells) == [id |-> id, cells |-> cells]

getRowId(row) == row.id

\* buildIndexById: row id -> 0-based index of the LAST row carrying that id;
\* -1 stands for "not in the map" (Map.get returns undefined).
buildIndexById(arr, id) ==
    LET hits == {i \in DOMAIN arr : getRowId(arr[i]) = id}
    IN IF hits = {} THEN -1
       ELSE (CHOOSE i \in hits : \A j \in hits : j <= i) - 1

\* getPendingKey: `${rowId}\0${columnId}`; "\\0" stands for the NUL separator.
getPendingKey(rowId, columnId) == rowId \o "\\0" \o columnId

\* { ...row, [columnId]: value }
setCell(row, columnId, value) ==
    [row EXCEPT !.cells = (columnId :> value) @@ row.cells]

(* ------------------------------------------------------------------ *)
(* History entries (Commands) and their replay functions                *)
(* ------------------------------------------------------------------ *)

\* HistoryEntry: variant and count as in the source; updates / rows / rowIds
\* are what the undo and redo closures capture; uid is the object's identity.
CellsUpdateEntry(uid, updates) ==
    [variant |-> "cells_update", count |-> Len(updates), uid |-> uid,
     updates |-> updates, rows |-> <<>>, rowIds |-> <<>>]

RowsAddEntry(uid, rows) ==
    [variant |-> "rows_add", count |-> Len(rows), uid |-> uid,
     updates |-> <<>>, rows |-> rows,
     rowIds |-> [i \in DOMAIN rows |-> getRowId(rows[i])]]

RowsDeleteEntry(uid, rows) ==
    [variant |-> "rows_delete", count |-> Len(rows), uid |-> uid,
     updates |-> <<>>, rows |-> rows,
     rowIds |-> [i \in DOMAIN rows |-> getRowId(rows[i])]]

\* Variant of cellsUndoLoop that spreads the row of currentData, not the row of
\* newData, so an earlier write to another column of the same row is lost.
RECURSIVE cellsUndoLoop_FromCurrent(_, _, _)
cellsUndoLoop_FromCurrent(currentData, newData, updates) ==
    IF updates = <<>> THEN newData
    ELSE LET update == Head(updates)
             idx == buildIndexById(currentData, update.rowId)
         IN cellsUndoLoop_FromCurrent(
                currentData,
                IF idx # -1
                THEN [newData EXCEPT ![idx + 1] =
                         setCell(currentData[idx + 1], update.columnId,
                                 update.previousValue)]
                ELSE newData,
                Tail(updates))

\* cells_update.undo: the loop over the captured updates, writing previousValue.
RECURSIVE cellsUndoLoop(_, _, _)
cellsUndoLoop(currentData, newData, updates) ==
    IF updates = <<>> THEN newData
    ELSE LET update == Head(updates)
             idx == buildIndexById(currentData, update.rowId)
         IN cellsUndoLoop(
                currentData,
                IF idx # -1
                THEN [newData EXCEPT ![idx + 1] =
                         setCell(@, update.columnId, update.previousValue)]
                ELSE newData,
                Tail(updates))

cellsUpdateUndo(updates, currentData) ==
    cellsUndoLoop(currentData, currentData, updates)

\* cells_update.redo: the same loop, writing newValue.
RECURSIVE cellsRedoLoop(_, _, _)
cellsRedoLoop(currentData, newData, updates) ==
    IF updates = <<>> THEN newData
    ELSE LET update == Head(updates)
             idx == buildIndexById(currentData, update.rowId)
         IN cellsRedoLoop(
                currentData,
                IF idx # -1
                THEN [newData EXCEPT ![idx + 1] =
                         setCell(@, update.columnId, update.newValue)]
                ELSE newData,
                Tail(updates))

\* Variant of cellsUpdateRedo that writes previousValue, as undo does.
cellsUpdateRedo_WritesPrevious(updates, currentData) ==
    cellsUndoLoop(currentData, currentData, updates)

cellsUpdateRedo(updates, currentData) ==
    cellsRedoLoop(currentData, currentData, updates)

\* for (const id of rowIds) { idx = indexById.get(id); if defined push }
RECURSIVE collectIndices(_, _)
collectIndices(currentData, rowIds) ==
    IF rowIds = <<>> THEN <<>>
    ELSE LET idx == buildIndexById(currentData, Head(rowIds))
         IN (IF idx # -1 THEN <<idx>> ELSE <<>>)
            \o collectIndices(currentData, Tail(rowIds))

\* for (const idx of indicesToRemove) newData.splice(idx, 1)
RECURSIVE spliceAll(_, _)
spliceAll(newData, indices) ==
    IF indices = <<>> THEN newData
    ELSE spliceAll(splice1(newData, Head(indices)), Tail(indices))

\* Variant of rowsAddUndo that removes nothing.
rowsAddUndo_RemovesNothing(rowIds, currentData) == currentData

\* rows_add.undo: remove the added rows, found by id, from the end first.
rowsAddUndo(rowIds, currentData) ==
    spliceAll(currentData, sortDescending(collectIndices(currentData, rowIds)))

\* Variant of rowsAddRedo that puts nothing back.
rowsAddRedo_AddsNothing(rows, currentData) == currentData

\* rows_add.redo: [...currentData, ...rows]
rowsAddRedo(rows, currentData) == currentData \o rows

\* Variant of rowsDeleteUndo that puts the rows back at the front.
rowsDeleteUndo_AtFront(rows, currentData) == rows \o currentData

\* rows_delete.undo: [...currentData, ...rows]
rowsDeleteUndo(rows, currentData) == currentData \o rows

\* rows_delete.redo: remove the deleted rows, found by id, from the end first.
rowsDeleteRedo(rowIds, currentData) ==
    spliceAll(currentData, sortDescending(collectIndices(currentData, rowIds)))

\* entry.undo(currentData)
entryUndo(entry, currentData) ==
    CASE entry.variant = "cells_update" -> cellsUpdateUndo(entry.updates, currentData)
      [] entry.variant = "rows_add" -> rowsAddUndo(entry.rowIds, currentData)
      [] entry.variant = "rows_delete" -> rowsDeleteUndo(entry.rows, currentData)

\* entry.redo(currentData)
entryRedo(entry, currentData) ==
    CASE entry.variant = "cells_update" -> cellsUpdateRedo(entry.updates, currentData)
      [] entry.variant = "rows_add" -> rowsAddRedo(entry.rows, currentData)
      [] entry.variant = "rows_delete" -> rowsDeleteRedo(entry.rowIds, currentData)

(* ------------------------------------------------------------------ *)
(* The replay functions on objects: which array and which row object     *)
(* each statement writes                                                *)
(* ------------------------------------------------------------------ *)

\* The objects a replay can touch: arrays (sequences of references to row
\* objects) and row objects. Array 1 is the currentData argument, its rows are
\* the row objects 1..Len(currentData), followed by the rows the entry captured.
loadHeap(currentData, captured) ==
    [arrays |-> << [i \in DOMAIN currentData |-> i] >>,
     rows |-> currentData \o captured]

\* The contents of array a: its row objects, in order.
derefArray(heap, a) ==
    [i \in DOMAIN heap.arrays[a] |-> heap.rows[heap.arrays[a][i]]]

\* Variant of spreadArray that hands back the array itself, not a copy.
spreadArray_Alias(heap, a) == [heap |-> heap, ref |-> a]

\* const newData = [...currentData]: a new array holding the same row objects.
spreadArray(heap, a) ==
    [heap |-> [heap EXCEPT !.arrays = Append(@, heap.arrays[a])],
     ref |-> Len(heap.arrays) + 1]

\* The loop of cells_update.undo / redo: newData[idx] = {...row, [columnId]: v}
\* allocates a new row object and stores its reference in newData.
RECURSIVE cellsLoopOnHeap(_, _, _, _)
cellsLoopOnHeap(heap, newData, updates, op) ==
    IF updates = <<>> THEN heap
    ELSE LET update == Head(updates)
             idx == buildIndexById(derefArray(heap, 1), update.rowId)
             row == heap.rows[heap.arrays[newData][idx + 1]]
             value == IF op = "undo" THEN update.previousValue ELSE update.newValue
         IN cellsLoopOnHeap(
                IF idx # -1
                THEN [heap EXCEPT
                        !.rows = Append(@, setCell(row, update.columnId, value)),
                        !.arrays[newData][idx + 1] = Len(heap.rows) + 1]
                ELSE heap,
                newData, Tail(updates), op)

\* cells_update.undo / redo on objects.
cellsUpdateOnHeap(heap, updates, op) ==
    LET copy == spreadArray(heap, 1)
    IN [heap |-> cellsLoopOnHeap(copy.heap, copy.ref, updates, op),
        ref |-> copy.ref]

\* rows_add.undo / rows_delete.redo on objects: splice on the copy.
rowsRemoveOnHeap(heap, rowIds) ==
    LET indices == sortDescending(collectIndices(derefArray(heap, 1), rowIds))
        copy == spreadArray(heap, 1)
    IN [heap |-> [copy.heap EXCEPT !.arrays[copy.ref] = spliceAll(@, indices)],
        ref |-> copy.ref]

\* rows_add.redo / rows_delete.undo on objects: [...currentData, ...rows] is a
\* new array holding the current row objects and then the captured ones.
rowsAppendOnHeap(heap, capturedRefs) ==
    [heap |-> [heap EXCEPT !.arrays = Append(@, heap.arrays[1] \o capturedRefs)],
     ref |-> Len(heap.arrays) + 1]

\* entry.undo(currentData) / entry.redo(currentData) on objects: the objects
\* before the call, after it, and the array returned.
entryOnHeap(entry, op, currentData) ==
    LET before == loadHeap(currentData, entry.rows)
        capturedRefs == [j \in DOMAIN entry.rows |-> Len(currentData) + j]
        removes == \/ entry.variant = "rows_add" /\ op = "undo"
                   \/ entry.variant = "rows_delete" /\ op = "redo"
        run == IF entry.variant = "cells_update"
               THEN cellsUpdateOnHeap(before, entry.updates, op)
               ELSE IF removes THEN rowsRemoveOnHeap(before, entry.rowIds)
               ELSE rowsAppendOnHeap(before, capturedRefs)
    IN [before |-> before, after |-> run.heap, result |-> run.ref]

(* ------------------------------------------------------------------ *)
(* The hook's mutable state as one value, threaded through a handler    *)
(* ------------------------------------------------------------------ *)

\* The refs of the hook at the start of a handler call. pushed, afterPush,
\* notified and seen record what the call does: the entries it pushes, the
\* store state right after each push, the number of store.notify() calls, and
\* each listener invocation with the state getState() returns to it.
Hook ==
    [undoStack |-> undoStack, redoStack |-> redoStack,
     hasPendingChanges |-> hasPendingChanges,
     pendingUpdates |-> pendingUpdates, batchTimeout |-> batchTimeout,
     timers |-> timers,
     nextUid |-> nextUid, listeners |-> listeners,
     pushed |-> <<>>, afterPush |-> <<>>, notified |-> 0, seen |-> <<>>]

\* store.getState()
getState(h) ==
    [undoStack |-> h.undoStack, redoStack |-> h.redoStack,
     hasPendingChanges |-> h.hasPendingChanges]

\* store.notify(): for (const listener of listenersRef.current) listener()
notify(h) ==
    [h EXCEPT !.notified = @ + 1,
              !.seen = @ \o [i \in DOMAIN h.listeners |->
                                [listener |-> h.listeners[i], state |-> getState(h)]]]

\* store.subscribe(callback): Set.add; the returned function is unsubscribe.
subscribe(h, callback) ==
    IF callback \in Range(h.listeners) THEN h
    ELSE [h EXCEPT !.listeners = Append(@, callback)]

\* The function subscribe returned: Set.delete(callback)
unsubscribe(h, callback) ==
    [h EXCEPT !.listeners = SelectSeq(@, LAMBDA l : l # callback)]

\* Variant of push that never evicts the oldest entry.
push_NoEviction(h, entry, maxHist) ==
    LET h1 == [h EXCEPT !.undoStack = Append(h.undoStack, entry),
                        !.redoStack = <<>>,
                        !.hasPendingChanges = FALSE]
    IN notify([h1 EXCEPT !.pushed = Append(@, entry),
                         !.afterPush = Append(@, getState(h1))])

\* Variant of push that leaves the redo stack as it is.
push_KeepsRedo(h, entry, maxHist) ==
    LET appended == Append(h.undoStack, entry)
        newUndoStack == IF Len(appended) > maxHist THEN Tail(appended) ELSE appended
        h1 == [h EXCEPT !.undoStack = newUndoStack,
                        !.hasPendingChanges = FALSE]
    IN notify([h1 EXCEPT !.pushed = Append(@, entry),
                         !.afterPush = Append(@, getState(h1))])

\* store.push(entry)
push(h, entry, maxHist) ==
    LET appended == Append(h.undoStack, entry)
        newUndoStack == IF Len(appended) > maxHist THEN Tail(appended) ELSE appended
        h1 == [h EXCEPT !.undoStack = newUndoStack,
                        !.redoStack = <<>>,
                        !.hasPendingChanges = FALSE]
    IN notify([h1 EXCEPT !.pushed = Append(@, entry),
                         !.afterPush = Append(@, getState(h1))])

\* Variant of store.undo that notifies the listeners on an empty stack too.
storeUndo_NotifiesOnEmpty(h) ==
    IF Len(h.undoStack) = 0 THEN [h |-> notify(h), entry |-> <<>>]
    ELSE LET entry == h.undoStack[Len(h.undoStack)]
         IN [h |-> notify([h EXCEPT
                       !.undoStack = SubSeq(h.undoStack, 1, Len(h.undoStack) - 1),
                       !.redoStack = Append(h.redoStack, entry)]),
             entry |-> <<entry>>]

\* store.undo(): the new hook state and the entry returned (<<>> for null).
storeUndo(h) ==
    IF Len(h.undoStack) = 0 THEN [h |-> h, entry |-> <<>>]
    ELSE LET entry == h.undoStack[Len(h.undoStack)]
         IN [h |-> notify([h EXCEPT
                       !.undoStack = SubSeq(h.undoStack, 1, Len(h.undoStack) - 1),
                       !.redoStack = Append(h.redoStack, entry)]),
             entry |-> <<entry>>]

\* Variant of store.redo that leaves the entry on the redo stack.
storeRedo_KeepsRedo(h) ==
    IF Len(h.redoStack) = 0 THEN [h |-> h, entry |-> <<>>]
    ELSE LET entry == h.redoStack[Len(h.redoStack)]
         IN [h |-> notify([h EXCEPT !.undoStack = Append(h.undoStack, entry)]),
             entry |-> <<entry>>]

\* Variant of store.redo that takes the oldest entry of the redo stack.
storeRedo_TakesBottom(h) ==
    IF Len(h.redoStack) = 0 THEN [h |-> h, entry |-> <<>>]
    ELSE LET entry == h.redoStack[1]
         IN [h |-> notify([h EXCEPT
                       !.undoStack = Append(h.undoStack, entry),
                       !.redoStack = Tail(h.redoStack)]),
             entry |-> <<entry>>]

\* store.redo()
storeRedo(h) ==
    IF Len(h.redoStack) = 0 THEN [h |-> h, entry |-> <<>>]
    ELSE LET entry == h.redoStack[Len(h.redoStack)]
         IN [h |-> notify([h EXCEPT
                       !.undoStack = Append(h.undoStack, entry),
                       !.redoStack = SubSeq(h.redoStack, 1, Len(h.redoStack) - 1)]),
             entry |-> <<entry>>]

\* Variant of store.clear that notifies before it replaces the state.
storeClear_NotifiesFirst(h) ==
    [notify(h) EXCEPT !.undoStack = <<>>, !.redoStack = <<>>,
                      !.hasPendingChanges = FALSE]

\* store.clear()
storeClear(h) ==
    notify([h EXCEPT !.undoStack = <<>>, !.redoStack = <<>>,
                     !.hasPendingChanges = FALSE])

\* Variant of store.setPendingChanges that notifies whatever the value.
setPendingChanges_AlwaysNotifies(h, value) ==
    notify([h EXCEPT !.hasPendingChanges = value])

\* store.setPendingChanges(value)
setPendingChanges(h, value) ==
    IF h.hasPendingChanges # value
    THEN notify([h EXCEPT !.hasPendingChanges = value])
    ELSE h

(* ------------------------------------------------------------------ *)
(* Edit batcher                                                         *)
(* ------------------------------------------------------------------ *)

\* pendingUpdatesRef.current is a Map: a sequence of [key, value] in insertion
\* order. Map.get: <<value>> if present, <<>> for undefined.
pendingGet(pending, key) ==
    LET hits == {i \in DOMAIN pending : pending[i].key = key}
    IN IF hits = {} THEN <<>> ELSE <<pending[CHOOSE i \in hits : TRUE].value>>

\* Map.set: an existing key keeps its position, a new key goes last.
pendingSet(pending, key, value) ==
    IF \E i \in DOMAIN pending : pending[i].key = key
    THEN [i \in DOMAIN pending |->
            IF pending[i].key = key THEN [key |-> key, value |-> value]
            ELSE pending[i]]
    ELSE Append(pending, [key |-> key, value |-> value])

\* Array.from(pending.values())
pendingValues(pending) == [i \in DOMAIN pending |-> pending[i].value]

\* Variant of mergeUpdate that overwrites the whole pending update, so the
\* previousValue of the latest edit wins.
mergeUpdate_LastPreviousWins(pending, update) ==
    pendingSet(pending, getPendingKey(update.rowId, update.columnId), update)

\* Variant of mergeUpdate that keeps the pending update of a cell as it is, so
\* the newValue of the first edit wins.
mergeUpdate_KeepsExisting(pending, update) ==
    LET key == getPendingKey(update.rowId, update.columnId)
    IN IF pendingGet(pending, key) # <<>> THEN pending
       ELSE pendingSet(pending, key, update)

\* One iteration of the merge loop of trackCellsUpdate.
mergeUpdate(pending, update) ==
    LET key == getPendingKey(update.rowId, update.columnId)
        existing == pendingGet(pending, key)
    IN IF existing # <<>>
       THEN pendingSet(pending, key,
                [update EXCEPT !.previousValue = existing[1].previousValue])
       ELSE pendingSet(pending, key, update)

RECURSIVE mergeUpdates(_, _)
mergeUpdates(pending, updates) ==
    IF updates = <<>> THEN pending
    ELSE mergeUpdates(mergeUpdate(pending, Head(updates)), Tail(updates))

\* clearTimeout(batchTimeoutRef.current): cancels the timer behind the handle
\* if it is still armed; the ref keeps the handle.
clearTimeout(h) ==
    IF h.batchTimeout = "armed"
    THEN [h EXCEPT !.timers = @ - 1, !.batchTimeout = "cleared"]
    ELSE h

\* batchTimeoutRef.current = setTimeout(...)
setTimeout(h) == [h EXCEPT !.timers = @ + 1, !.batchTimeout = "armed"]

\* if (batchTimeoutRef.current) { clearTimeout(...); batchTimeoutRef.current = null }
cancelTimeout(h) ==
    IF h.batchTimeout # "null"
    THEN [clearTimeout(h) EXCEPT !.batchTimeout = "null"]
    ELSE h

\* Variant of flushPendingUpdates that does not clear the timer.
flushPendingUpdates_LeavesTimer(h, maxHist) ==
    IF Len(h.pendingUpdates) = 0 THEN h
    ELSE LET updates == pendingValues(h.pendingUpdates)
             h1 == [h EXCEPT !.pendingUpdates = <<>>, !.nextUid = @ + 1]
         IN push(h1, CellsUpdateEntry(h.nextUid, updates), maxHist)

\* Variant of flushPendingUpdates that pushes the batch and leaves the edits
\* in the pending map.
flushPendingUpdates_KeepsPending(h, maxHist) ==
    IF Len(h.pendingUpdates) = 0 THEN h
    ELSE LET updates == pendingValues(h.pendingUpdates)
             h1 == [cancelTimeout(h) EXCEPT !.nextUid = @ + 1]
         IN push(h1, CellsUpdateEntry(h.nextUid, updates), maxHist)

\* flushPendingUpdates()
flushPendingUpdates(h, maxHist) ==
    IF Len(h.pendingUpdates) = 0 THEN h
    ELSE LET updates == pendingValues(h.pendingUpdates)
             h1 == [cancelTimeout(h) EXCEPT !.pendingUpdates = <<>>,
                                            !.nextUid = @ + 1]
         IN push(h1, CellsUpdateEntry(h.nextUid, updates), maxHist)

\* Variant of trackCellsUpdate that drops the updates that change nothing.
trackCellsUpdate_SkipsUnchanged(h, updates, isEnabled) ==
    LET changing == SelectSeq(updates, LAMBDA u : u.previousValue # u.newValue)
    IN IF ~isEnabled \/ Len(changing) = 0 THEN h
       ELSE LET h1 == [h EXCEPT !.pendingUpdates = mergeUpdates(@, changing)]
                h2 == setPendingChanges(h1, TRUE)
            IN setTimeout(IF h2.batchTimeout # "null" THEN clearTimeout(h2) ELSE h2)

\* Variant of trackCellsUpdate that arms a timer without cancelling the one
\* behind the handle it replaces.
trackCellsUpdate_NoCancel(h, updates, isEnabled) ==
    IF ~isEnabled \/ Len(updates) = 0 THEN h
    ELSE LET h1 == [h EXCEPT !.pendingUpdates = mergeUpdates(@, updates)]
             h2 == setPendingChanges(h1, TRUE)
         IN setTimeout(h2)

\* Variant of trackCellsUpdate that does not look at the enabled prop.
trackCellsUpdate_IgnoresEnabled(h, updates, isEnabled) ==
    IF Len(updates) = 0 THEN h
    ELSE LET h1 == [h EXCEPT !.pendingUpdates = mergeUpdates(@, updates)]
             h2 == setPendingChanges(h1, TRUE)
         IN setTimeout(IF h2.batchTimeout # "null" THEN clearTimeout(h2) ELSE h2)

\* trackCellsUpdate(updates)
trackCellsUpdate(h, updates, isEnabled) ==
    IF ~isEnabled \/ Len(updates) = 0 THEN h
    ELSE LET h1 == [h EXCEPT !.pendingUpdates = mergeUpdates(@, updates)]
             h2 == setPendingChanges(h1, TRUE)
         IN setTimeout(IF h2.batchTimeout # "null" THEN clearTimeout(h2) ELSE h2)

\* Variant of the timer callback that resets the handle and flushes nothing.
timerCallback_NoFlush(h, maxHist) ==
    [h EXCEPT !.timers = @ - 1, !.batchTimeout = "null"]

\* The setTimeout callback armed by trackCellsUpdate; the timer that fires is
\* no longer outstanding.
timerCallback(h, maxHist) ==
    flushPendingUpdates([h EXCEPT !.timers = @ - 1, !.batchTimeout = "null"],
                        maxHist)

\* Variant of trackRowsAdd that flushes the pending batch before it looks at
\* the length of the list.
trackRowsAdd_FlushesFirst(h, rows, isEnabled, maxHist) ==
    IF ~isEnabled THEN h
    ELSE LET h1 == IF Len(h.pendingUpdates) > 0
                   THEN flushPendingUpdates(h, maxHist) ELSE h
             h2 == [h1 EXCEPT !.nextUid = @ + 1]
         IN IF Len(rows) = 0 THEN h1
            ELSE push(h2, RowsAddEntry(h1.nextUid, rows), maxHist)

\* trackRowsAdd(rows)
trackRowsAdd(h, rows, isEnabled, maxHist) ==
    IF ~isEnabled \/ Len(rows) = 0 THEN h
    ELSE LET h1 == IF Len(h.pendingUpdates) > 0
                   THEN flushPendingUpdates(h, maxHist) ELSE h
             h2 == [h1 EXCEPT !.nextUid = @ + 1]
         IN push(h2, RowsAddEntry(h1.nextUid, rows), maxHist)

\* Variant of trackRowsDelete that does not flush the pending batch first.
trackRowsDelete_NoFlush(h, rows, isEnabled, maxHist) ==
    IF ~isEnabled \/ Len(rows) = 0 THEN h
    ELSE push([h EXCEPT !.nextUid = @ + 1],
              RowsDeleteEntry(h.nextUid, rows), maxHist)

\* trackRowsDelete(rows)
trackRowsDelete(h, rows, isEnabled, maxHist) ==
    IF ~isEnabled \/ Len(rows) = 0 THEN h
    ELSE LET h1 == IF Len(h.pendingUpdates) > 0
                   THEN flushPendingUpdates(h, maxHist) ELSE h
             h2 == [h1 EXCEPT !.nextUid = @ + 1]
         IN push(h2, RowsDeleteEntry(h1.nextUid, rows), maxHist)

\* Variant of toastText whose label is always plural.
toastText_AlwaysPlural(verb, entry) ==
    LET label == IF entry.variant = "cells_update" THEN "cells" ELSE "rows"
    IN verb \o ": " \o ToString(entry.count) \o " " \o label

\* The text of toast.success after a replay: `${verb}: ${entry.count} ${label}`
toastText(verb, entry) ==
    LET plural == IF entry.count # 1 THEN "s" ELSE ""
        label == IF entry.variant = "cells_update"
                 THEN "cell" \o plural ELSE "row" \o plural
    IN verb \o ": " \o ToString(entry.count) \o " " \o label

\* Variant of onUndo that does not flush the pending batch first.
onUndo_NoFlush(h, currentData, isEnabled, maxHist) ==
    LET r == storeUndo(h)
    IN IF ~isEnabled \/ r.entry = <<>>
       THEN [h |-> h, entry |-> <<>>, handed |-> <<>>, toasts |-> <<>>]
       ELSE [h |-> r.h, entry |-> r.entry,
             handed |-> <<entryUndo(r.entry[1], currentData)>>,
             toasts |-> <<toastText("Undo", r.entry[1])>>]

\* onUndo(): the new hook state, the entry popped (<<>> if none), the arrays
\* handed to onDataChange and the toasts shown.
onUndo(h, currentData, isEnabled, maxHist) ==
    IF ~isEnabled THEN [h |-> h, entry |-> <<>>, handed |-> <<>>, toasts |-> <<>>]
    ELSE LET h1 == IF Len(h.pendingUpdates) > 0
                   THEN flushPendingUpdates(h, maxHist) ELSE h
             r == storeUndo(h1)
         IN IF r.entry = <<>>
            THEN [h |-> r.h, entry |-> <<>>, handed |-> <<>>, toasts |-> <<>>]
            ELSE [h |-> r.h, entry |-> r.entry,
                  handed |-> <<entryUndo(r.entry[1], currentData)>>,
                  toasts |-> <<toastText("Undo", r.entry[1])>>]

\* onRedo()
onRedo(h, currentData, isEnabled) ==
    IF ~isEnabled THEN [h |-> h, entry |-> <<>>, handed |-> <<>>, toasts |-> <<>>]
    ELSE LET r == storeRedo(h)
         IN IF r.entry = <<>>
            THEN [h |-> r.h, entry |-> <<>>, handed |-> <<>>, toasts |-> <<>>]
            ELSE [h |-> r.h, entry |-> r.entry,
                  handed |-> <<entryRedo(r.entry[1], currentData)>>,
                  toasts |-> <<toastText("Redo", r.entry[1])>>]

\* Variant of onClear that does not cancel the debounce timer.
onClear_LeavesTimer(h) ==
    storeClear([h EXCEPT !.pendingUpdates = <<>>])

\* Variant of onClear that leaves the pending map as it is.
onClear_KeepsPending(h) ==
    storeClear(cancelTimeout(h))

\* onClear()
onClear(h) ==
    storeClear([cancelTimeout(h) EXCEPT !.pendingUpdates = <<>>])

\* Variant of unmountCleanup that flushes the pending batch.
unmountCleanup_Flushes(h) == flushPendingUpdates(h, maxHistory)

\* Variant of unmountCleanup that leaves the timer running.
unmountCleanup_LeavesTimer(h) == h

\* The cleanup of the unmount effect: clearTimeout, the ref is left as it is.
unmountCleanup(h) ==
    IF h.batchTimeout # "null" THEN clearTimeout(h) ELSE h

\* Variant of canUndo that looks at the undo stack only.
canUndo_IgnoresPending(state) == Len(state.undoStack) > 0

\* canUndo: useStore(store, state => undoStack.length > 0 || hasPendingChanges)
canUndo(state) == Len(state.undoStack) > 0 \/ state.hasPendingChanges

\* canRedo: useStore(store, state => redoStack.length > 0)
canRedo(state) == Len(state.redoStack) > 0

\* event.key.toLowerCase(), for the keys the events carry.
toLowerCase(key) ==
    CASE key = "Z" -> "z"
      [] key = "Y" -> "y"
      [] OTHER -> key

\* Variant of onKeyDown that does not look at the focused element.
onKeyDown_IgnoresFocus(event, activeElement) ==
    LET isCtrlOrCmd == event.ctrlKey \/ event.metaKey
        key == toLowerCase(event.key)
    IN IF ~isCtrlOrCmd \/ (key # "z" /\ key # "y") THEN <<>>
       ELSE IF key = "z" /\ ~event.shiftKey THEN <<"preventDefault", "onUndo">>
       ELSE <<"preventDefault", "onRedo">>

\* onKeyDown(event): the calls it makes, in order. activeElement is <<>> for
\* null, else <<element>>; inPopover is the result of getIsInPopover.
onKeyDown(event, activeElement) ==
    LET isCtrlOrCmd == event.ctrlKey \/ event.metaKey
        key == toLowerCase(event.key)
        isInput == activeElement[1].tagName \in {"INPUT", "TEXTAREA"}
        isContentEditable == activeElement[1].contenteditable = "true"
        isInPopover == activeElement[1].inPopover
    IN IF ~isCtrlOrCmd \/ (key # "z" /\ key # "y") THEN <<>>
       ELSE IF activeElement # <<>>
               /\ (isInput \/ isContentEditable \/ isInPopover) THEN <<>>
       ELSE IF key = "z" /\ ~event.shiftKey THEN <<"preventDefault", "onUndo">>
       ELSE IF (key = "z" /\ event.shiftKey) \/ key = "y"
            THEN <<"preventDefault", "onRedo">>
       ELSE <<>>

(* ------------------------------------------------------------------ *)
(* The host grid and the events of a run                                *)
(* ------------------------------------------------------------------ *)

\* The cell edits the host makes in one call: the columns written and the
\* value written into them (cells start at 0).
EditInputs ==
    {[cols |-> <<"c1">>, value |-> 1],
     [cols |-> <<"c1">>, value |-> 2],
     [cols |-> <<"c1", "c2">>, value |-> 1]}

\* The row selections the host deletes in one call (indices into its array).
DeleteSelections == {{1}, {2}, {1, 2}}

NewCells == [c \in Range(Columns) |-> 0]

RECURSIVE setCells(_, _, _)
setCells(row, cols, value) ==
    IF cols = <<>> THEN row
    ELSE setCells(setCell(row, Head(cols), value), Tail(cols), value)

\* The rows of arr at the indices in S, in array order.
RECURSIVE pick(_, _)
pick(arr, S) ==
    IF arr = <<>> THEN <<>>
    ELSE pick(SubSeq(arr, 1, Len(arr) - 1), S)
         \o (IF Len(arr) \in S THEN <<arr[Len(arr)]>> ELSE <<>>)

\* Writes the hook state a handler returns, and the record of the call; for an
\* entry applied by onUndo / onRedo the record holds the replay on objects.
Commit(h, op, entry, handed, toasts) ==
    /\ undoStack' = h.undoStack
    /\ redoStack' = h.redoStack
    /\ hasPendingChanges' = h.hasPendingChanges
    /\ pendingUpdates' = h.pendingUpdates
    /\ batchTimeout' = h.batchTimeout
    /\ timers' = h.timers
    /\ nextUid' = h.nextUid
    /\ listeners' = h.listeners
    /\ lastCall' = [op |-> op, pushed |-> h.pushed, afterPush |-> h.afterPush,
                    notified |-> h.notified, seen |-> h.seen,
                    entry |-> entry, handed |-> handed,
                    toasts |-> toasts,
                    heap |-> IF handed = <<>> THEN <<>>
                             ELSE <<entryOnHeap(entry[1],
                                        IF op = "onUndo" THEN "undo" ELSE "redo",
                                        data)>>]
    /\ pushLog' = pushLog \o h.pushed
    /\ steps' = steps + 1

CanStep == mounted /\ steps < MaxSteps

\* phase records the shape of the run so far:
\*   "tracking"  only tracked host mutations and timer firings since Init,
\*               with enabled TRUE and maxHistory as at Init;
\*   "undone1"   a tracking run followed by exactly one onUndo;
\*   "undoing"   a tracking run followed by two or more onUndo;
\*   "redone"    a tracking run, one onUndo, then one onRedo;
\*   "branched"  a tracking run, onUndo calls of which the last popped an
\*               entry, then accepted cell edits and timer firings only;
\*   "other"     anything else.
KeepTracking == IF phase = "tracking" /\ enabled THEN "tracking" ELSE "other"

AfterEdit ==
    IF enabled /\ phase \in {"undone1", "undoing"}
       /\ lastCall.op = "onUndo" /\ lastCall.entry # <<>>
    THEN "branched"
    ELSE IF enabled /\ phase = "branched" THEN "branched"
    ELSE KeepTracking

\* The host writes value into the columns cols of row i, then tracks the edit.
HostEditCells(i, cols, value) ==
    /\ CanStep
    /\ i \in DOMAIN data
    /\ LET row == data[i]
           updates == [k \in DOMAIN cols |->
                          [rowId |-> getRowId(row), columnId |-> cols[k],
                           previousValue |-> row.cells[cols[k]],
                           newValue |-> value]]
           newData == [data EXCEPT ![i] = setCells(row, cols, value)]
       IN /\ Commit(trackCellsUpdate(Hook, updates, enabled),
                    "trackCellsUpdate", <<>>, <<>>, <<>>)
          /\ data' = newData
          /\ afterOp' = newData
          /\ batchLog' = IF enabled THEN batchLog \o updates ELSE batchLog
    /\ phase' = AfterEdit
    /\ UNCHANGED <<keydown, maxHistory, enabled, mounted, freshUsed, undoLog>>

\* The host inserts a new row at the front, then tracks the insertion.
HostAddRow ==
    /\ CanStep
    /\ freshUsed < Len(FreshRowIds)
    /\ LET row == Row(FreshRowIds[freshUsed + 1], NewCells)
           newData == <<row>> \o data
           h == trackRowsAdd(Hook, <<row>>, enabled, maxHistory)
       IN /\ Commit(h, "trackRowsAdd", <<>>, <<>>, <<>>)
          /\ data' = newData
          /\ afterOp' = newData
          /\ batchLog' = IF h.pendingUpdates = <<>> THEN <<>> ELSE batchLog
    /\ freshUsed' = freshUsed + 1
    /\ phase' = KeepTracking
    /\ UNCHANGED <<keydown, maxHistory, enabled, mounted, undoLog>>

\* The host removes the rows at the indices S, then tracks the deletion.
HostDeleteRows(S) ==
    /\ CanStep
    /\ S # {} /\ S \subseteq DOMAIN data
    /\ LET rows == pick(data, S)
           newData == pick(data, DOMAIN data \ S)
           h == trackRowsDelete(Hook, rows, enabled, maxHistory)
       IN /\ Commit(h, "trackRowsDelete", <<>>, <<>>, <<>>)
          /\ data' = newData
          /\ afterOp' = newData
          /\ batchLog' = IF h.pendingUpdates = <<>> THEN <<>> ELSE batchLog
    /\ phase' = KeepTracking
    /\ UNCHANGED <<keydown, maxHistory, enabled, mounted, freshUsed, undoLog>>

\* The debounce timer fires (the browser runs the callback of a timer that
\* was not cleared, whether or not the hook is still mounted). The bound on
\* the host's calls does not hold a timer back: one that is outstanding after
\* the last call still fires.
TimerFires ==
    /\ timers > 0
    /\ \E h \in {timerCallback(Hook, maxHistory)} :
          /\ Commit(h, "timer", <<>>, <<>>, <<>>)
          /\ batchLog' = IF h.pendingUpdates = <<>> THEN <<>> ELSE batchLog
    /\ phase' = IF phase \in {"tracking", "branched"} THEN phase ELSE "other"
    /\ UNCHANGED <<keydown, data, maxHistory, enabled, mounted, freshUsed, undoLog, afterOp>>

\* One call of onUndo; the host adopts the array given to onDataChange.
OnUndoCall ==
    /\ LET r == onUndo(Hook, data, enabled, maxHistory)
       IN /\ Commit(r.h, "onUndo", r.entry, r.handed, r.toasts)
          /\ data' = IF r.handed = <<>> THEN data ELSE r.handed[1]
          /\ batchLog' = IF r.h.pendingUpdates = <<>> THEN <<>> ELSE batchLog
          /\ undoLog' = IF phase = "tracking" THEN r.entry
                        ELSE IF phase \in {"undone1", "undoing"} THEN undoLog \o r.entry
                        ELSE undoLog
    /\ phase' = IF ~enabled THEN "other"
                ELSE IF phase = "tracking" THEN "undone1"
                ELSE IF phase \in {"undone1", "undoing"} THEN "undoing"
                ELSE "other"
    /\ UNCHANGED <<keydown, maxHistory, enabled, mounted, freshUsed, afterOp>>

\* The user triggers undo.
OnUndo == CanStep /\ OnUndoCall

\* One call of onRedo; the host adopts the array given to onDataChange.
OnRedoCall ==
    /\ LET r == onRedo(Hook, data, enabled)
       IN /\ Commit(r.h, "onRedo", r.entry, r.handed, r.toasts)
          /\ data' = IF r.handed = <<>> THEN data ELSE r.handed[1]
    /\ phase' = IF enabled /\ phase = "undone1" THEN "redone" ELSE "other"
    /\ UNCHANGED <<keydown, maxHistory, enabled, mounted, freshUsed, batchLog, undoLog, afterOp>>

\* The user triggers redo.
OnRedo == CanStep /\ OnRedoCall

\* The host clears the history.
OnClear ==
    /\ CanStep
    /\ Commit(onClear(Hook), "onClear", <<>>, <<>>, <<>>)
    /\ batchLog' = <<>>
    /\ phase' = "other"
    /\ UNCHANGED <<keydown, data, maxHistory, enabled, mounted, freshUsed, undoLog, afterOp>>

\* The host re-renders with another maxHistory prop.
SetMaxHistory(m) ==
    /\ CanStep
    /\ m # maxHistory
    /\ maxHistory' = m
    /\ phase' = "other"
    /\ steps' = steps + 1
    /\ UNCHANGED <<keydown, undoStack, redoStack, hasPendingChanges, pendingUpdates,
                   timers, listeners,
                   batchTimeout, data, enabled, mounted, nextUid, freshUsed,
                   lastCall, batchLog, pushLog, undoLog, afterOp>>

\* The host re-renders with the enabled prop flipped.
SetEnabled ==
    /\ CanStep
    /\ enabled' = ~enabled
    /\ phase' = "other"
    /\ steps' = steps + 1
    /\ UNCHANGED <<keydown, undoStack, redoStack, hasPendingChanges, pendingUpdates,
                   timers, listeners,
                   batchTimeout, data, maxHistory, mounted, nextUid, freshUsed,
                   lastCall, batchLog, pushLog, undoLog, afterOp>>

\* The component unmounts: the cleanup effect runs.
Unmount ==
    /\ CanStep
    /\ Commit(unmountCleanup(Hook), "unmount", <<>>, <<>>, <<>>)
    /\ mounted' = FALSE
    /\ phase' = "other"
    /\ UNCHANGED <<keydown, data, maxHistory, enabled, freshUsed, batchLog, undoLog, afterOp>>

\* No keydown event has reached the window.
NoKey == [dispatched |-> FALSE]

\* The two useStore subscriptions of the hook (canUndo, canRedo).
HookListeners == <<"canUndo", "canRedo">>

NoCall ==
    [op |-> "none", pushed |-> <<>>, afterPush |-> <<>>, notified |-> 0,
     seen |-> <<>>, entry |-> <<>>, handed |-> <<>>, toasts |-> <<>>, heap |-> <<>>]

Init ==
    /\ undoStack = <<>>
    /\ redoStack = <<>>
    /\ hasPendingChanges = FALSE
    /\ pendingUpdates = <<>>
    /\ batchTimeout = "null"
    /\ timers = 0
    /\ listeners = HookListeners
    /\ keydown = NoKey
    /\ data = [i \in DOMAIN InitialRowIds |-> Row(InitialRowIds[i], NewCells)]
    /\ maxHistory \in 1..MaxHistoryProp
    /\ enabled = TRUE
    /\ mounted = TRUE
    /\ nextUid = 1
    /\ freshUsed = 0
    /\ lastCall = NoCall
    /\ batchLog = <<>>
    /\ pushLog = <<>>
    /\ undoLog = <<>>
    /\ phase = "tracking"
    /\ afterOp = data
    /\ steps = 0

Next ==
    \/ \E i \in 1..(Len(InitialRowIds) + Len(FreshRowIds)), e \in EditInputs :
          HostEditCells(i, e.cols, e.value)
    \/ HostAddRow
    \/ \E S \in DeleteSelections : HostDeleteRows(S)
    \/ TimerFires
    \/ OnUndo
    \/ OnRedo
    \/ OnClear
    \/ \E m \in 0..MaxHistoryProp : SetMaxHistory(m)
    \/ SetEnabled
    \/ Unmount

Spec == Init /\ [][Next]_vars

(* ------------------------------------------------------------------ *)
(* Properties                                                           *)
(* ------------------------------------------------------------------ *)

\* C1 (branch discard): once an onUndo has popped an entry and a
\* trackCellsUpdate has then accepted at least one edit, the next redo returns
\* null and hands nothing to onDataChange, whether or not the debounce timer
\* has fired since.
C1_BranchDiscard ==
    phase = "branched" =>
        LET r == onRedo(Hook, data, enabled)
        IN r.entry = <<>> /\ r.handed = <<>>

\* C4: in every reachable state the undo stack holds at most maxHistory
\* entries, maxHistory being the value the host currently configures.
C4_UndoStackWithinMaxHistory == Len(undoStack) <= maxHistory

\* C6: hasPendingChanges is true exactly when the pending map holds at least
\* one uncommitted edit.
C6_PendingFlagMatchesMap == hasPendingChanges <=> (Len(pendingUpdates) > 0)

C6_Witness ==
    /\ lastCall.op = "onRedo" /\ lastCall.entry # <<>>
    /\ hasPendingChanges /\ Len(pendingUpdates) > 0

\* C7: whenever the redo stack is non-empty the batcher holds no pending edit.
C7_NoPendingBehindRedo == (Len(redoStack) > 0) => (Len(pendingUpdates) = 0)

\* C8: right after every store.push of a handler call (by a flush or by a row
\* tracking call) the redo stack is empty and hasPendingChanges is false.
C8_PushClearsRedoAndPending ==
    \A i \in DOMAIN lastCall.afterPush :
        /\ lastCall.afterPush[i].redoStack = <<>>
        /\ lastCall.afterPush[i].hasPendingChanges = FALSE
        /\ Len(lastCall.afterPush[i].undoStack) > 0 =>
              lastCall.afterPush[i].undoStack[Len(lastCall.afterPush[i].undoStack)]
                  = lastCall.pushed[i]

\* A timer flush that pushed while an undone entry sat on the redo stack and
\* the pending flag was set.
C8_Witness ==
    /\ lastCall.op = "timer" /\ Len(lastCall.pushed) = 1
    /\ phase = "branched"
    /\ redoStack = <<>> /\ ~hasPendingChanges

\* C2 (round trip): after any sequence of tracked cell edits, row adds and row
\* deletes by a host that applies what it tracks, an onUndo immediately
\* followed by an onRedo hands onDataChange an array with the same set of rows
\* (row id and cell values) as the data right after the original operation.
C2_RoundTrip ==
    (phase = "redone" /\ lastCall.handed # <<>>) =>
        Range(lastCall.handed[1]) = Range(afterOp)

\* The round trip of a row insertion: the same rows in another order.
C2_Witness ==
    /\ phase = "redone" /\ lastCall.handed # <<>>
    /\ lastCall.entry[1].variant = "rows_add"
    /\ Len(pushLog) = 2
    /\ lastCall.handed[1] # afterOp

\* C5 (history bound, FIFO eviction): from an empty history and with a fixed
\* maxHistory >= 1, after any number of pushes the undo stack holds exactly the
\* maxHistory most recently pushed entries in push order; successive undos
\* return them newest first until the stack is empty, and an undo returns
\* null only then.
C5_HistoryBound ==
    (phase \in {"tracking", "undone1", "undoing"} /\ maxHistory >= 1) =>
        LET kept == LastN(pushLog, maxHistory)
            n == Len(undoLog)
        IN /\ phase = "tracking" => undoStack = kept
           /\ phase # "tracking" =>
                /\ n <= Len(kept)
                /\ undoLog = SubSeq(Reverse(kept), 1, n)
                /\ undoStack = SubSeq(kept, 1, Len(kept) - n)
                /\ (lastCall.entry = <<>>) => (n = Len(kept) /\ undoStack = <<>>)

\* More pushes than maxHistory, then every kept entry undone, then one more
\* undo that returned null.
C5_Witness ==
    /\ phase = "undoing"
    /\ Len(pushLog) > maxHistory
    /\ Len(undoLog) = maxHistory
    /\ undoStack = <<>>
    /\ lastCall.op = "onUndo" /\ lastCall.entry = <<>>

\* The raw edits of a log that touch cell (rowId, columnId), in order.
EditsOf(log, rowId, columnId) ==
    SelectSeq(log, LAMBDA u : u.rowId = rowId /\ u.columnId = columnId)

CellsOf(log) == {<<log[i].rowId, log[i].columnId>> : i \in DOMAIN log}

CellsUpdatesIn(entries) == SelectSeq(entries, LAMBDA e : e.variant = "cells_update")

\* entry holds, for every cell edited in log, exactly one update, carrying the
\* previousValue of the first edit and the newValue of the last edit, and
\* nothing else.
Collapses(entry, log) ==
    /\ Len(entry.updates) = Cardinality(CellsOf(log))
    /\ entry.count = Cardinality(CellsOf(log))
    /\ \A cell \in CellsOf(log) :
          LET edits == EditsOf(log, cell[1], cell[2])
              mine == EditsOf(entry.updates, cell[1], cell[2])
          IN /\ Len(mine) = 1
             /\ mine[1].previousValue = edits[1].previousValue
             /\ mine[1].newValue = edits[Len(edits)].newValue

\* In arr, every row with an edited id holds, in each edited column, the
\* previousValue of the first edit of log (pick = "undo") or the newValue of
\* its last edit (pick = "redo").
CellsHold(arr, log, which) ==
    \A cell \in CellsOf(log) : \A i \in DOMAIN arr :
        getRowId(arr[i]) = cell[1] =>
            LET edits == EditsOf(log, cell[1], cell[2])
            IN arr[i].cells[cell[2]] =
                  (IF which = "undo" THEN edits[1].previousValue
                   ELSE edits[Len(edits)].newValue)

\* C3 (batching collapse): the edits tracked between two flushes yield exactly
\* one cells_update entry; for each edited cell its undo writes the
\* previousValue of the first edit and its redo the newValue of the last edit,
\* never an intermediate value.
C3_BatchingCollapse ==
    [][(nextUid' # nextUid) =>
          LET flushed == CellsUpdatesIn(lastCall'.pushed)
          IN /\ Len(flushed) = (IF batchLog = <<>> THEN 0 ELSE 1)
             /\ \A i \in DOMAIN flushed :
                   /\ Collapses(flushed[i], batchLog)
                   /\ CellsHold(entryUndo(flushed[i], afterOp), batchLog, "undo")
                   /\ CellsHold(entryRedo(flushed[i], afterOp), batchLog, "redo")
      ]_vars

\* Three edits of one cell (0 -> .. -> .. -> 1) flushed by the timer as one
\* entry with one update from 0 to 1.
C3_Witness ==
    /\ steps = 4 /\ phase = "tracking" /\ nextUid = 2
    /\ lastCall.op = "timer" /\ Len(lastCall.pushed) = 1
    /\ lastCall.pushed[1].count = 1
    /\ lastCall.pushed[1].updates[1].previousValue = 0
    /\ lastCall.pushed[1].updates[1].newValue = 1
    /\ undoStack = lastCall.pushed

\* What C9 says of an onUndo step taken with pending edits, given the undo
\* stack expected afterwards: the pending batch was committed as one
\* cells_update entry, that very entry was popped and reverted, the array
\* handed to onDataChange has each pending cell (of a row it holds) at its
\* first previousValue, and the redo stack holds exactly the flushed entry.
FlushedThenReverted(undoStackAfter) ==
    /\ Len(lastCall'.pushed) = 1
    /\ lastCall'.pushed[1].variant = "cells_update"
    /\ Collapses(lastCall'.pushed[1], batchLog)
    /\ lastCall'.entry = lastCall'.pushed
    /\ Len(lastCall'.handed) = 1
    /\ CellsHold(lastCall'.handed[1], batchLog, "undo")
    /\ data' = lastCall'.handed[1]
    /\ redoStack' = lastCall'.pushed
    /\ undoStack' = undoStackAfter
    /\ pendingUpdates' = <<>>

\* C9 as stated (taken with maxHistory >= 1): onUndo with pending edits commits
\* the batch, pops and reverts that very entry, and every entry that was
\* already on the undo stack is still there.
C9_UndoFlushesFirst_AsStated ==
    [][(OnUndo /\ enabled /\ Len(pendingUpdates) > 0 /\ maxHistory >= 1) =>
          FlushedThenReverted(undoStack)]_vars

\* C9 amended: with maxHistory >= 1, the same, except that the oldest entry of
\* the undo stack is evicted when the stack already held maxHistory entries or
\* more (the flush is a push).
C9_UndoFlushesFirst ==
    [][(OnUndo /\ enabled /\ Len(pendingUpdates) > 0 /\ maxHistory >= 1) =>
          FlushedThenReverted(IF Len(undoStack) >= maxHistory
                              THEN Tail(undoStack) ELSE undoStack)]_vars

\* An onUndo that flushed a batch and reverted it, under an older entry that
\* stayed on the undo stack.
C9_Witness ==
    /\ lastCall.op = "onUndo"
    /\ Len(lastCall.pushed) = 1 /\ lastCall.entry = lastCall.pushed
    /\ redoStack = lastCall.pushed
    /\ Len(undoStack) = 1 /\ undoStack[1].uid < lastCall.pushed[1].uid

\* What C10 says of a row tracking step taken with pending edits: the pending
\* edits are pushed as their own cells_update entry directly below the new
\* rows entry, the pending map is empty and no timer is outstanding.
RowsAboveFlushedCells ==
    /\ Len(lastCall'.pushed) = 2
    /\ lastCall'.pushed[1].variant = "cells_update"
    /\ Collapses(lastCall'.pushed[1], batchLog)
    /\ lastCall'.pushed[2].variant \in {"rows_add", "rows_delete"}
    /\ lastCall'.pushed[2].updates = <<>>
    /\ Len(undoStack') >= 2
    /\ SubSeq(undoStack', Len(undoStack') - 1, Len(undoStack')) = lastCall'.pushed
    /\ pendingUpdates' = <<>>
    /\ batchTimeout' = "null"

RowTrackingStep ==
    \/ HostAddRow
    \/ \E S \in DeleteSelections : HostDeleteRows(S)

\* C10 as stated: whenever trackRowsAdd or trackRowsDelete is called with at
\* least one row while edits are pending.
C10_RowOpsFlushFirst_AsStated ==
    [][(RowTrackingStep /\ enabled /\ Len(pendingUpdates) > 0) =>
          RowsAboveFlushedCells]_vars

\* C10 amended: the same with maxHistory >= 2 (with a smaller maxHistory the
\* push of the rows entry evicts the cells_update entry just pushed).
C10_RowOpsFlushFirst ==
    [][(RowTrackingStep /\ enabled /\ Len(pendingUpdates) > 0 /\ maxHistory >= 2) =>
          RowsAboveFlushedCells]_vars

\* A row deletion tracked while edits were pending: two entries pushed by the
\* one call, the cells_update entry below the rows_delete entry.
C10_Witness ==
    /\ lastCall.op = "trackRowsDelete"
    /\ Len(lastCall.pushed) = 2
    /\ undoStack = lastCall.pushed
    /\ undoStack[1].variant = "cells_update"
    /\ undoStack[2].variant = "rows_delete"
    /\ pendingUpdates = <<>> /\ batchTimeout = "null"

\* C11 as stated: when the hook is torn down while the batcher holds pending
\* edits, they are flushed: pushed to the store as one cells_update entry, so
\* that no tracked edit is lost.
C11_TeardownFlushes_AsStated ==
    [][(Unmount /\ Len(pendingUpdates) > 0) =>
          /\ Len(lastCall'.pushed) = 1
          /\ lastCall'.pushed[1].variant = "cells_update"
          /\ Collapses(lastCall'.pushed[1], batchLog)
          /\ pendingUpdates' = <<>>]_vars

\* C11 amended: the teardown does not flush; it only cancels the timer. No
\* entry is pushed, both stacks and the pending flag stay as they were, and
\* the pending edits stay in the batcher, never committed.
C11_TeardownDoesNotFlush ==
    [][(Unmount /\ Len(pendingUpdates) > 0) =>
          /\ lastCall'.pushed = <<>>
          /\ lastCall'.notified = 0
          /\ undoStack' = undoStack
          /\ redoStack' = redoStack
          /\ hasPendingChanges' = hasPendingChanges
          /\ pendingUpdates' = pendingUpdates
          /\ pushLog' = pushLog
          /\ batchTimeout' = "cleared"]_vars

\* Torn down with two pending edits that were never pushed.
C11_Witness ==
    /\ ~mounted /\ lastCall.op = "unmount"
    /\ Len(pendingUpdates) = 2 /\ hasPendingChanges
    /\ pushLog = <<>> /\ undoStack = <<>>

\* C12 (teardown discards): once the hook is torn down, no timer is
\* outstanding, no timer callback has run since the teardown, and the teardown
\* pushed nothing, so the edits that were pending are never committed.
C12_TeardownDiscards ==
    ~mounted =>
        /\ batchTimeout # "armed"
        /\ lastCall.op = "unmount"
        /\ lastCall.pushed = <<>>
        /\ hasPendingChanges <=> (Len(pendingUpdates) > 0)

\* Torn down while a timer was outstanding over pending edits.
C12_Witness ==
    /\ ~mounted /\ batchTimeout = "cleared"
    /\ Len(pendingUpdates) > 0
    /\ Len(pushLog) > 0

(* ------------------------------------------------------------------ *)
(* Replay of one entry against an arbitrary current array               *)
(* ------------------------------------------------------------------ *)

ReplayRowIds == {"r1", "r2", "r3", "r4", "r5"}

\* Sequences without repetition over S, of length lo..hi.
DistinctSeqs(S, lo, hi) ==
    {q \in UNION {[1..n -> S] : n \in lo..hi} :
        \A i, j \in DOMAIN q : i # j => q[i] # q[j]}

\* The current arrays: rows with distinct ids, in any order, cells at 0.
ReplayArrays ==
    {[i \in DOMAIN q |-> Row(q[i], NewCells)] :
        q \in DistinctSeqs(ReplayRowIds, 0, MaxReplayLen)}

\* The row objects an entry captured (cells as they were at record time); the
\* same row may be listed twice.
RecordedCells == [c \in Range(Columns) |-> 5]

ReplayRowLists ==
    {[i \in DOMAIN q |-> Row(q[i], RecordedCells)] :
        q \in UNION {[1..n -> ReplayRowIds] : n \in 1..MaxRecorded}}

\* The updates a flush captured: one per pending key, so no cell twice.
RecordedUpdate(rowId, columnId) ==
    [rowId |-> rowId, columnId |-> columnId,
     previousValue |-> IF columnId = "c1" THEN 1 ELSE 3,
     newValue |-> IF columnId = "c1" THEN 2 ELSE 4]

ReplayUpdateLists ==
    {[i \in DOMAIN q |-> RecordedUpdate(q[i][1], q[i][2])] :
        q \in DistinctSeqs(ReplayRowIds \X Range(Columns), 1, MaxRecordedUpdates)}

ReplayEntries ==
    {RowsAddEntry(1, rows) : rows \in ReplayRowLists}
    \cup {RowsDeleteEntry(1, rows) : rows \in ReplayRowLists}
    \cup {CellsUpdateEntry(1, updates) : updates \in ReplayUpdateLists}

InitReplay ==
    /\ undoStack \in {<<entry>> : entry \in ReplayEntries}
    /\ data \in ReplayArrays
    /\ redoStack = <<>>
    /\ hasPendingChanges = FALSE
    /\ pendingUpdates = <<>>
    /\ batchTimeout = "null"
    /\ timers = 0
    /\ listeners = HookListeners
    /\ keydown = NoKey
    /\ maxHistory = 1
    /\ enabled = TRUE
    /\ mounted = TRUE
    /\ nextUid = 2
    /\ freshUsed = 0
    /\ lastCall = NoCall
    /\ batchLog = <<>>
    /\ pushLog = <<>>
    /\ undoLog = <<>>
    /\ phase = "replay"
    /\ afterOp = data
    /\ steps = 0

Replayed(op, result) ==
    /\ phase = "replay" /\ steps = 0
    /\ lastCall' = [NoCall EXCEPT !.op = op, !.entry = undoStack,
                                  !.handed = <<result>>]
    /\ steps' = 1
    /\ UNCHANGED <<keydown, undoStack, redoStack, hasPendingChanges, pendingUpdates,
                   timers, listeners,
                   batchTimeout, data, maxHistory, enabled, mounted, nextUid,
                   freshUsed, batchLog, pushLog, undoLog, phase, afterOp>>

\* entry.undo(data) for the entry and the array drawn at the start.
ReplayUndo == Replayed("undo", entryUndo(undoStack[1], data))

\* entry.redo(data)
ReplayRedo == Replayed("redo", entryRedo(undoStack[1], data))

NextReplay == ReplayUndo \/ ReplayRedo

SpecReplay == InitReplay /\ [][NextReplay]_vars

IdsOf(arr) == {getRowId(arr[i]) : i \in DOMAIN arr}

\* The replay just made: variant of the entry and direction.
Replaying(variant, op) ==
    /\ phase = "replay" /\ lastCall.op = op
    /\ lastCall.entry[1].variant = variant

\* C13 (re-insertion at the end): the undo of a rows_delete entry and the redo
\* of a rows_add entry return the current array, unchanged and in its order,
\* followed by exactly the recorded rows in recorded order, whatever the
\* current array is.
C13_ReinsertAtEnd ==
    (Replaying("rows_delete", "undo") \/ Replaying("rows_add", "redo")) =>
        LET result == lastCall.handed[1]
            rows == lastCall.entry[1].rows
        IN /\ Len(result) = Len(data) + Len(rows)
           /\ \A i \in DOMAIN data : result[i] = data[i]
           /\ \A j \in DOMAIN rows : result[Len(data) + j] = rows[j]

\* Rows r2 and r4 deleted from r1..r5: the undo yields r1, r3, r5, r2, r4.
C13_Witness ==
    /\ Replaying("rows_delete", "undo")
    /\ [i \in DOMAIN data |-> getRowId(data[i])] = <<"r1", "r3", "r5">>
    /\ lastCall.entry[1].rowIds = <<"r2", "r4">>
    /\ [i \in DOMAIN lastCall.handed[1] |-> getRowId(lastCall.handed[1][i])]
          = <<"r1", "r3", "r5", "r2", "r4">>

\* The rows of arr whose id is not in ids, in their order.
Without(arr, ids) == SelectSeq(arr, LAMBDA row : getRowId(row) \notin ids)

\* C14 (removal replay): for every current array and every recorded list of
\* rows, also one that lists a row id twice, the undo of rows_add and the redo
\* of rows_delete return the current array minus exactly the rows whose ids
\* were recorded, every other row kept and in its relative order.
C14_RemovalIsExact ==
    (Replaying("rows_add", "undo") \/ Replaying("rows_delete", "redo")) =>
        lastCall.handed[1] = Without(data, Range(lastCall.entry[1].rowIds))

\* The row ids an entry recorded.
RecordedIds(entry) ==
    IF entry.variant = "cells_update"
    THEN {entry.updates[i].rowId : i \in DOMAIN entry.updates}
    ELSE Range(entry.rowIds)

\* The value the replay of updates must leave in cell (rowId, columnId), given
\* its current value: the recorded previousValue (undo) or newValue (redo) when
\* the cell was recorded, its current value otherwise.
ReplayedValue(updates, rowId, columnId, current, op) ==
    IF \E i \in DOMAIN updates :
           updates[i].rowId = rowId /\ updates[i].columnId = columnId
    THEN LET i == CHOOSE i \in DOMAIN updates :
                      updates[i].rowId = rowId /\ updates[i].columnId = columnId
         IN IF op = "undo" THEN updates[i].previousValue ELSE updates[i].newValue
    ELSE current

\* result is cur with every recorded cell of a present row rewritten and nothing
\* else touched: same rows in the same order, same columns.
CellsReplayed(result, cur, updates, op) ==
    /\ Len(result) = Len(cur)
    /\ \A i \in DOMAIN cur :
          /\ getRowId(result[i]) = getRowId(cur[i])
          /\ DOMAIN result[i].cells = DOMAIN cur[i].cells
          /\ \A c \in DOMAIN cur[i].cells :
                result[i].cells[c] =
                    ReplayedValue(updates, getRowId(cur[i]), c, cur[i].cells[c], op)

\* C15 (missing row ids): when some recorded row id is absent from the current
\* array, the replay skips it and treats the remaining ids as usual: the undo
\* of rows_add and the redo of rows_delete return the current array minus the
\* rows with a recorded id, the undo and redo of cells_update rewrite the
\* recorded cells of the rows that are present, and no other row changes.
C15_MissingIdsSkipped ==
    (/\ phase = "replay" /\ lastCall.handed # <<>>
     /\ RecordedIds(lastCall.entry[1]) \ IdsOf(data) # {}) =>
        LET entry == lastCall.entry[1]
            result == lastCall.handed[1]
        IN /\ (Replaying("rows_add", "undo") \/ Replaying("rows_delete", "redo"))
                 => result = Without(data, RecordedIds(entry))
           /\ entry.variant = "cells_update"
                 => CellsReplayed(result, data, entry.updates, lastCall.op)

\* C16 (cell replay is position-independent): whatever the order of the rows
\* of the current array (row ids unique), the undo of a cells_update entry sets
\* each recorded cell of a present row to its previousValue and the redo to
\* its newValue, several columns of one row included, and leaves every other
\* cell and the order of the rows as they are.
C16_CellReplayById ==
    (phase = "replay" /\ lastCall.handed # <<>>
        /\ lastCall.entry[1].variant = "cells_update") =>
        CellsReplayed(lastCall.handed[1], data, lastCall.entry[1].updates,
                      lastCall.op)

\* Both columns of r2 were recorded and r2 now sits third: the undo writes
\* both previous values into that row.
C16_Witness ==
    /\ Replaying("cells_update", "undo")
    /\ Len(data) = 3 /\ getRowId(data[3]) = "r2" /\ getRowId(data[1]) = "r4"
    /\ Len(lastCall.entry[1].updates) = 2
    /\ RecordedIds(lastCall.entry[1]) = {"r2"}
    /\ lastCall.handed[1][3] = Row("r2", [c1 |-> 1, c2 |-> 3])
    /\ lastCall.handed[1][1] = data[1]

\* C17 (empty stacks): store.undo on an empty undo stack and store.redo on an
\* empty redo stack return null, change nothing in the store and notify no
\* listener; an onUndo or onRedo that got null from the store calls
\* onDataChange zero times and shows no toast, and such an onRedo leaves the
\* store as it was.
C17_EmptyStackIsNoOp ==
    /\ Len(undoStack) = 0 => storeUndo(Hook) = [h |-> Hook, entry |-> <<>>]
    /\ Len(redoStack) = 0 => storeRedo(Hook) = [h |-> Hook, entry |-> <<>>]
    /\ (lastCall.op \in {"onUndo", "onRedo"} /\ lastCall.entry = <<>>) =>
           lastCall.handed = <<>> /\ lastCall.toasts = <<>>
    /\ (Len(redoStack) = 0 /\ mounted) =>
           LET r == onRedo(Hook, data, enabled)
           IN r.h = Hook /\ r.handed = <<>> /\ r.toasts = <<>>
    /\ (Len(undoStack) = 0 /\ Len(pendingUpdates) = 0 /\ mounted) =>
           LET r == onUndo(Hook, data, enabled, maxHistory)
           IN r.h = Hook /\ r.handed = <<>> /\ r.toasts = <<>>

\* A row was added and the addition undone; a second onUndo, with the hook
\* enabled, finds the undo stack empty.
C17_Witness ==
    /\ lastCall.op = "onUndo" /\ enabled /\ lastCall.entry = <<>>
    /\ undoStack = <<>> /\ Len(redoStack) = 1 /\ Len(pushLog) = 1
    /\ lastCall.handed = <<>> /\ lastCall.toasts = <<>> /\ lastCall.notified = 0

\* k calls of store.undo in a row: the hook state reached and the entries
\* returned, in the order of the calls.
RECURSIVE UndoTimes(_, _)
UndoTimes(h, k) ==
    IF k = 0 THEN [h |-> h, entries |-> <<>>]
    ELSE LET r == storeUndo(h)
             rest == UndoTimes(r.h, k - 1)
         IN [h |-> rest.h, entries |-> r.entry \o rest.entries]

\* k calls of store.redo in a row.
RECURSIVE RedoTimes(_, _)
RedoTimes(h, k) ==
    IF k = 0 THEN [h |-> h, entries |-> <<>>]
    ELSE LET r == storeRedo(h)
             rest == RedoTimes(r.h, k - 1)
         IN [h |-> rest.h, entries |-> r.entry \o rest.entries]

\* C18 (stack discipline): store.undo moves exactly the top entry of the undo
\* stack onto the top of the redo stack and returns it, store.redo moves the
\* top of the redo stack back onto the undo stack; an undo followed at once by
\* a redo leaves both stacks as they were; k undos followed by k redos return
\* the entries newest first and then again in their original push order.
C18_StackDiscipline ==
    LET n == Len(undoStack)
        m == Len(redoStack)
    IN /\ n > 0 =>
            LET r == storeUndo(Hook)
            IN /\ r.entry = <<undoStack[n]>>
               /\ r.h.undoStack = SubSeq(undoStack, 1, n - 1)
               /\ r.h.redoStack = Append(redoStack, undoStack[n])
               /\ getState(storeRedo(r.h).h) = getState(Hook)
               /\ storeRedo(r.h).entry = r.entry
       /\ m > 0 =>
            LET r == storeRedo(Hook)
            IN /\ r.entry = <<redoStack[m]>>
               /\ r.h.redoStack = SubSeq(redoStack, 1, m - 1)
               /\ r.h.undoStack = Append(undoStack, redoStack[m])
       /\ \A k \in 1..n :
            LET u == UndoTimes(Hook, k)
                r == RedoTimes(u.h, k)
                moved == SubSeq(undoStack, n - k + 1, n)
            IN /\ u.entries = Reverse(moved)
               /\ u.h.redoStack = redoStack \o Reverse(moved)
               /\ r.entries = moved
               /\ getState(r.h) = getState(Hook)

\* Two entries were pushed, the newer was undone and redone: both are back on
\* the undo stack in push order and the redo stack is empty again.
C18_Witness ==
    /\ phase = "redone" /\ lastCall.op = "onRedo"
    /\ Len(undoStack) = 2 /\ redoStack = <<>>
    /\ undoStack = pushLog
    /\ lastCall.entry = <<undoStack[2]>>
    /\ undoLog = lastCall.entry

\* C19 (canUndo / canRedo are sound): with enabled true and maxHistory >= 1,
\* in every state where canUndo is true a call of onUndo pops an entry and
\* calls onDataChange exactly once, and where canUndo is false onUndo calls
\* onDataChange zero times; the same for canRedo and onRedo.
C19_CanUndoRedoSound ==
    (enabled /\ maxHistory >= 1) =>
        LET u == onUndo(Hook, data, enabled, maxHistory)
            r == onRedo(Hook, data, enabled)
        IN /\ canUndo(getState(Hook)) => (Len(u.entry) = 1 /\ Len(u.handed) = 1)
           /\ ~canUndo(getState(Hook)) => Len(u.handed) = 0
           /\ canRedo(getState(Hook)) => (Len(r.entry) = 1 /\ Len(r.handed) = 1)
           /\ ~canRedo(getState(Hook)) => Len(r.handed) = 0

\* canUndo holds through hasPendingChanges alone: the undo stack is empty and
\* a batch is pending; onUndo then pops the entry its own flush pushes.
C19_Witness ==
    /\ enabled /\ maxHistory >= 1
    /\ undoStack = <<>> /\ hasPendingChanges /\ Len(pendingUpdates) > 0
    /\ canUndo(getState(Hook)) /\ ~canRedo(getState(Hook))
    /\ LET u == onUndo(Hook, data, enabled, maxHistory)
       IN u.entry = u.h.pushed /\ Len(u.handed) = 1 /\ u.h.undoStack = <<>>

\* A call of trackCellsUpdate, with any of the host's edits.
CellTrackingStep ==
    \E i \in 1..(Len(InitialRowIds) + Len(FreshRowIds)), e \in EditInputs :
        HostEditCells(i, e.cols, e.value)

\* C20 (disabled is a no-op): while enabled is false, a call of onUndo, onRedo,
\* trackCellsUpdate, trackRowsAdd or trackRowsDelete leaves the undo stack, the
\* redo stack, the pending edits, hasPendingChanges and the debounce timer as
\* they are, pushes nothing, notifies no listener and calls onDataChange zero
\* times; onUndo and onRedo leave the host data as it is.
C20_DisabledIsNoOp ==
    [][(~enabled /\ (OnUndo \/ OnRedo \/ CellTrackingStep \/ RowTrackingStep)) =>
          /\ UNCHANGED <<undoStack, redoStack, pendingUpdates,
                         hasPendingChanges, batchTimeout, nextUid, pushLog>>
          /\ lastCall'.pushed = <<>> /\ lastCall'.notified = 0
          /\ lastCall'.entry = <<>>
          /\ lastCall'.handed = <<>> /\ lastCall'.toasts = <<>>
          /\ (OnUndo \/ OnRedo) => data' = data]_vars

\* A batch was pending with its timer armed when the host disabled the hook;
\* the onUndo that followed flushed nothing and handed nothing over.
C20_Witness ==
    /\ ~enabled /\ lastCall.op = "onUndo"
    /\ Len(pendingUpdates) > 0 /\ hasPendingChanges /\ batchTimeout = "armed"
    /\ undoStack = <<>> /\ pushLog = <<>>
    /\ lastCall.handed = <<>>

\* What onClear leaves behind: no entry, no pending edit, no timer.
Cleared ==
    /\ undoStack = <<>> /\ redoStack = <<>>
    /\ ~hasPendingChanges
    /\ pendingUpdates = <<>>
    /\ batchTimeout = "null"
    /\ timers = 0

\* A track call that is accepted (enabled, at least one update or row).
SuccessfulTrack == enabled /\ (CellTrackingStep \/ RowTrackingStep)

\* C21 (clear): onClear empties both stacks, resets hasPendingChanges, drops
\* every pending edit and cancels the timer; in that condition canUndo and
\* canRedo are false, and every step other than an accepted track call keeps
\* the condition, so a timer armed before the clear pushes nothing later.
C21_ClearResetsAll ==
    [][/\ OnClear => Cleared'
       /\ Cleared => (~canUndo(getState(Hook)) /\ ~canRedo(getState(Hook)))
       /\ (Cleared /\ ~SuccessfulTrack) =>
             (Cleared' /\ pushLog' = pushLog /\ lastCall'.handed = <<>>)]_vars

\* A row was added, then a cell edited (batch pending, timer armed), then the
\* host cleared the history.
C21_Witness ==
    /\ lastCall.op = "onClear" /\ steps = 3 /\ enabled
    /\ Len(pushLog) = 1 /\ pushLog[1].variant = "rows_add"
    /\ \E i \in DOMAIN data : data[i].cells["c1"] # 0
    /\ Cleared
    /\ ~canUndo(getState(Hook)) /\ ~canRedo(getState(Hook))

\* C22 (no mutation in place): the undo or redo of every entry applied leaves
\* the array it was given and every row object that existed unchanged and
\* returns a new array, whose contents are what onDataChange receives;
\* onDataChange is called exactly once per entry applied by onUndo / onRedo and
\* never by a track call, a flush (timer) or onClear.
C22_NoMutationInPlace ==
    /\ Len(lastCall.handed) = Len(lastCall.entry)
    /\ lastCall.op \notin {"onUndo", "onRedo"} => lastCall.handed = <<>>
    /\ lastCall.handed # <<>> =>
          LET run == lastCall.heap[1]
              n == Len(run.before.rows)
          IN /\ run.after.arrays[1] = run.before.arrays[1]
             /\ SubSeq(run.after.rows, 1, n) = run.before.rows
             /\ run.result # 1
             /\ derefArray(run.after, run.result) = lastCall.handed[1]

\* An undo of a batch of two cell edits: two row objects were allocated for
\* the copy, the array handed in still holds the old ones.
C22_Witness ==
    /\ lastCall.op = "onUndo" /\ lastCall.entry # <<>>
    /\ lastCall.entry[1].variant = "cells_update" /\ lastCall.entry[1].count = 2
    /\ LET run == lastCall.heap[1]
       IN /\ derefArray(run.after, 1) # derefArray(run.after, run.result)
          /\ Len(run.after.rows) = Len(run.before.rows) + 2
          /\ derefArray(run.after, 1) = derefArray(run.before, 1)

(* ------------------------------------------------------------------ *)
(* The store on its own: listeners and the store operations             *)
(* ------------------------------------------------------------------ *)

ListenerIds == {"l1", "l2"}

\* In this specification phase holds the listener whose unsubscribe function
\* was called last and that has not subscribed again ("store" if none).
InitStore ==
    /\ undoStack = <<>>
    /\ redoStack = <<>>
    /\ hasPendingChanges = FALSE
    /\ pendingUpdates = <<>>
    /\ batchTimeout = "null"
    /\ timers = 0
    /\ listeners = <<>>
    /\ keydown = NoKey
    /\ data = [i \in DOMAIN InitialRowIds |-> Row(InitialRowIds[i], NewCells)]
    /\ maxHistory \in 1..MaxHistoryProp
    /\ enabled = TRUE
    /\ mounted = TRUE
    /\ nextUid = 1
    /\ freshUsed = 0
    /\ lastCall = NoCall
    /\ batchLog = <<>>
    /\ pushLog = <<>>
    /\ undoLog = <<>>
    /\ phase = "store"
    /\ afterOp = data
    /\ steps = 0

\* One call on the store: h is the hook state it leaves, entry what it returns.
StoreCall(h, op, entry) ==
    /\ steps < MaxStoreSteps
    /\ Commit(h, op, entry, <<>>, <<>>)
    /\ UNCHANGED <<keydown, data, maxHistory, enabled, mounted, freshUsed, batchLog,
                   undoLog, afterOp>>

Subscribe(l) ==
    /\ StoreCall(subscribe(Hook, l), "subscribe", <<>>)
    /\ phase' = IF phase = l THEN "store" ELSE phase

Unsubscribe(l) ==
    /\ StoreCall(unsubscribe(Hook, l), "unsubscribe", <<>>)
    /\ phase' = IF l \in Range(listeners) THEN l ELSE phase

StorePush ==
    /\ StoreCall(push([Hook EXCEPT !.nextUid = @ + 1],
                      RowsAddEntry(nextUid, <<Row(FreshRowIds[1], NewCells)>>),
                      maxHistory),
                 "push", <<>>)
    /\ UNCHANGED phase

StoreUndo ==
    /\ LET r == storeUndo(Hook) IN StoreCall(r.h, "undo", r.entry)
    /\ UNCHANGED phase

StoreRedo ==
    /\ LET r == storeRedo(Hook) IN StoreCall(r.h, "redo", r.entry)
    /\ UNCHANGED phase

StoreClear ==
    /\ StoreCall(storeClear(Hook), "clear", <<>>)
    /\ UNCHANGED phase

StoreSetPendingChanges(value) ==
    /\ StoreCall(setPendingChanges(Hook, value), "setPendingChanges", <<>>)
    /\ UNCHANGED phase

NextStore ==
    \/ \E l \in ListenerIds : Subscribe(l)
    \/ \E l \in ListenerIds : Unsubscribe(l)
    \/ StorePush
    \/ StoreUndo
    \/ StoreRedo
    \/ StoreClear
    \/ \E value \in BOOLEAN : StoreSetPendingChanges(value)

SpecStore == InitStore /\ [][NextStore]_vars

\* The last store call was a push, a clear, or an undo / redo that returned an
\* entry.
StoreCallSucceeded ==
    \/ lastCall.op \in {"push", "clear"}
    \/ lastCall.op \in {"undo", "redo"} /\ lastCall.entry # <<>>

\* C23 (notification): each successful push, undo, redo and clear invokes every
\* subscribed listener exactly once, in one notification, after the state was
\* replaced (getState gives the listener the new state); a listener that has
\* unsubscribed is not invoked.
C23_ListenersNotifiedOnce ==
    StoreCallSucceeded =>
        /\ lastCall.notified = 1
        /\ [i \in DOMAIN lastCall.seen |-> lastCall.seen[i].listener] = listeners
        /\ \A i \in DOMAIN lastCall.seen :
              lastCall.seen[i].state = getState(Hook)
        /\ \A l \in ListenerIds :
              Cardinality({i \in DOMAIN lastCall.seen :
                              lastCall.seen[i].listener = l})
                 = IF l \in Range(listeners) THEN 1 ELSE 0
        /\ phase \in ListenerIds =>
              \A i \in DOMAIN lastCall.seen : lastCall.seen[i].listener # phase

\* l1 and l2 subscribed, l1 unsubscribed, and an undo then returned the entry
\* pushed before: only l2 was invoked, and it saw the entry on the redo stack.
C23_Witness ==
    /\ lastCall.op = "undo" /\ lastCall.entry # <<>>
    /\ phase = "l1" /\ listeners = <<"l2">>
    /\ Len(lastCall.seen) = 1 /\ lastCall.seen[1].listener = "l2"
    /\ lastCall.seen[1].state.redoStack = lastCall.entry
    /\ lastCall.seen[1].state.undoStack = <<>>

\* C24 (setPendingChanges): called with the current value of hasPendingChanges
\* it changes nothing and notifies nobody; called with the other value it
\* changes hasPendingChanges only (both stacks as they were) and notifies
\* once; so an accepted trackCellsUpdate call notifies exactly when no edit
\* was pending before it: only the first call of a batch window does.
C24_PendingFlagNotifiesOnChange ==
    [][/\ setPendingChanges(Hook, hasPendingChanges) = Hook
       /\ LET h == setPendingChanges(Hook, ~hasPendingChanges)
          IN /\ h.hasPendingChanges = ~hasPendingChanges
             /\ h.undoStack = undoStack /\ h.redoStack = redoStack
             /\ h.notified = 1
             /\ [l \in DOMAIN h.seen |-> h.seen[l].listener] = listeners
             /\ [h EXCEPT !.hasPendingChanges = hasPendingChanges,
                          !.notified = 0, !.seen = <<>>] = Hook
       /\ (enabled /\ CellTrackingStep) =>
             /\ lastCall'.notified = IF hasPendingChanges THEN 0 ELSE 1
             /\ hasPendingChanges'
             /\ undoStack' = undoStack /\ redoStack' = redoStack]_vars

\* The second trackCellsUpdate call of a batch window: two edits are pending
\* and the call notified nobody.
C24_Witness ==
    /\ lastCall.op = "trackCellsUpdate" /\ enabled
    /\ Len(batchLog) = 2 /\ Len(pendingUpdates) = 1 /\ hasPendingChanges
    /\ lastCall.notified = 0 /\ lastCall.seen = <<>>

\* The notification texts for a count of 1 and of 2, per verb and noun.
ExpectedToast(verb, variant, count) ==
    LET noun == IF variant = "cells_update" THEN "cell" ELSE "row"
    IN IF count = 1 THEN verb \o ": 1 " \o noun
       ELSE verb \o ": " \o ToString(count) \o " " \o noun \o "s"

\* C25 (user notification): an onUndo / onRedo that pops an entry shows exactly
\* one success toast, "Undo: N L" resp. "Redo: N L", N the entry's count and L
\* cell / cells for cells_update and row / rows for rows_add and rows_delete,
\* singular exactly when N = 1; one that pops nothing shows none, and no other
\* call shows any.
C25_ToastPerReplay ==
    /\ lastCall.op \notin {"onUndo", "onRedo"} => lastCall.toasts = <<>>
    /\ (lastCall.op \in {"onUndo", "onRedo"} /\ lastCall.entry = <<>>) =>
           lastCall.toasts = <<>>
    /\ (lastCall.op \in {"onUndo", "onRedo"} /\ lastCall.entry # <<>>) =>
           LET entry == lastCall.entry[1]
               verb == IF lastCall.op = "onUndo" THEN "Undo" ELSE "Redo"
           IN /\ lastCall.toasts =
                    <<ExpectedToast(verb, entry.variant, entry.count)>>
              /\ entry.count = IF entry.variant = "cells_update"
                               THEN Len(entry.updates) ELSE Len(entry.rows)

\* The deletion of two rows was undone: the toast reads "Undo: 2 rows".
C25_Witness ==
    /\ lastCall.op = "onUndo" /\ lastCall.entry # <<>>
    /\ lastCall.entry[1].variant = "rows_delete"
    /\ Len(lastCall.entry[1].rows) = 2
    /\ lastCall.toasts = <<"Undo: 2 rows">>

(* ------------------------------------------------------------------ *)
(* The keydown listener                                                 *)
(* ------------------------------------------------------------------ *)

KeyEvents ==
    [ctrlKey : BOOLEAN, metaKey : BOOLEAN, shiftKey : BOOLEAN,
     key : {"z", "Z", "y", "Y", "a"}]

\* document.activeElement: none, or an element with its tag name, its
\* contenteditable attribute ("null" when absent) and whether it is in a popover.
ActiveElements ==
    {<<>>} \cup
    {<<el>> : el \in [tagName : {"INPUT", "TEXTAREA", "DIV"},
                      contenteditable : {"null", "true", "false"},
                      inPopover : BOOLEAN]}

\* The history the key events act on: row r3 was added (entry 1), r1 deleted
\* (entry 2) and the deletion undone, so both stacks hold an entry.
KeysHistory ==
    LET r3 == Row(FreshRowIds[1], NewCells)
        r1 == Row(InitialRowIds[1], NewCells)
        r2 == Row(InitialRowIds[2], NewCells)
    IN [data |-> <<r3, r2, r1>>,
        undoStack |-> <<RowsAddEntry(1, <<r3>>)>>,
        redoStack |-> <<RowsDeleteEntry(2, <<r1>>)>>]

InitKeys ==
    /\ undoStack = KeysHistory.undoStack
    /\ redoStack = KeysHistory.redoStack
    /\ hasPendingChanges = FALSE
    /\ pendingUpdates = <<>>
    /\ batchTimeout = "null"
    /\ timers = 0
    /\ listeners = HookListeners
    /\ keydown \in [dispatched : {FALSE}, event : KeyEvents,
                    activeElement : ActiveElements]
    /\ data = KeysHistory.data
    /\ maxHistory = 2
    /\ enabled \in BOOLEAN
    /\ mounted = TRUE
    /\ nextUid = 3
    /\ freshUsed = 1
    /\ lastCall = NoCall
    /\ batchLog = <<>>
    /\ pushLog = KeysHistory.undoStack \o KeysHistory.redoStack
    /\ undoLog = <<>>
    /\ phase = "keys"
    /\ afterOp = data
    /\ steps = 0

\* The event reaches the window. The effect registers onKeyDown only while
\* enabled is true; the host adopts what onDataChange hands over.
KeyDown ==
    /\ ~keydown.dispatched
    /\ LET effects == IF enabled
                      THEN onKeyDown(keydown.event, keydown.activeElement)
                      ELSE <<>>
           r == IF "onUndo" \in Range(effects)
                THEN onUndo(Hook, data, enabled, maxHistory)
                ELSE IF "onRedo" \in Range(effects)
                THEN onRedo(Hook, data, enabled)
                ELSE [h |-> Hook, entry |-> <<>>, handed |-> <<>>, toasts |-> <<>>]
           op == IF "onUndo" \in Range(effects) THEN "onUndo"
                 ELSE IF "onRedo" \in Range(effects) THEN "onRedo"
                 ELSE "none"
       IN /\ Commit(r.h, op, r.entry, r.handed, r.toasts)
          /\ data' = IF r.handed = <<>> THEN data ELSE r.handed[1]
          /\ keydown' = [dispatched |-> TRUE, event |-> keydown.event,
                         activeElement |-> keydown.activeElement,
                         effects |-> effects]
    /\ UNCHANGED <<maxHistory, enabled, mounted, freshUsed, batchLog, undoLog,
                   phase, afterOp>>

NextKeys == KeyDown

SpecKeys == InitKeys /\ [][NextKeys]_vars

\* C26 (input dispatcher): with Ctrl or Meta held, key z (in either case)
\* without Shift calls preventDefault and then onUndo, and key z with Shift or
\* key y calls preventDefault and then onRedo; when the focused element is an
\* INPUT or a TEXTAREA, has contenteditable="true" or is inside a popover, or
\* when enabled is false, nothing is called; every other key is ignored.
C26_KeyDispatch ==
    keydown.dispatched =>
        LET event == keydown.event
            key == IF event.key \in {"z", "Z"} THEN "z"
                   ELSE IF event.key \in {"y", "Y"} THEN "y" ELSE "other"
            chord == event.ctrlKey \/ event.metaKey
            focusBlocks ==
                \E el \in Range(keydown.activeElement) :
                    \/ el.tagName = "INPUT" \/ el.tagName = "TEXTAREA"
                    \/ el.contenteditable = "true"
                    \/ el.inPopover
            live == enabled /\ chord /\ ~focusBlocks
            expected ==
                IF live /\ key = "z" /\ ~event.shiftKey
                THEN <<"preventDefault", "onUndo">>
                ELSE IF live /\ ((key = "z" /\ event.shiftKey) \/ key = "y")
                THEN <<"preventDefault", "onRedo">>
                ELSE <<>>
        IN /\ keydown.effects = expected
           /\ expected = <<>> =>
                 /\ lastCall.op = "none"
                 /\ undoStack = KeysHistory.undoStack
                 /\ redoStack = KeysHistory.redoStack
                 /\ data = KeysHistory.data
           /\ expected # <<>> =>
                 /\ lastCall.op = expected[2]
                 /\ Len(lastCall.entry) = 1 /\ Len(lastCall.handed) = 1

\* Meta+Shift+Z with the focus on a plain element outside any popover: the
\* deletion of r1 was redone.
C26_Witness ==
    /\ keydown.dispatched
    /\ keydown.event = [ctrlKey |-> FALSE, metaKey |-> TRUE, shiftKey |-> TRUE,
                        key |-> "Z"]
    /\ keydown.activeElement =
          <<[tagName |-> "DIV", contenteditable |-> "false", inPopover |-> FALSE]>>
    /\ keydown.effects = <<"preventDefault", "onRedo">>
    /\ lastCall.op = "onRedo" /\ redoStack = <<>> /\ Len(data) = 2

\* The updates of log that write the value the cell already had.
Unchanging(log) ==
    SelectSeq(log, LAMBDA u : u.previousValue = u.newValue)

\* The cells whose value differs between the arrays before and after (rows
\* paired by position).
CellsChanged(before, after) ==
    {<<getRowId(before[i]), c>> : i \in DOMAIN before, c \in Range(Columns)}
    \cap {cell \in ReplayRowIds \X Range(Columns) :
            \E i \in DOMAIN before :
                /\ getRowId(before[i]) = cell[1]
                /\ before[i].cells[cell[2]] # after[i].cells[cell[2]]}

\* The cells an entry records with a previousValue other than its newValue.
CellsRewritten(entry) ==
    {<<entry.updates[i].rowId, entry.updates[i].columnId>> :
        i \in {j \in DOMAIN entry.updates :
                 entry.updates[j].previousValue # entry.updates[j].newValue}}

\* An onUndo (from a run of tracked mutations only) or the onRedo right after
\* it applies a cells_update entry.
CellsReplayStep ==
    /\ \/ OnUndo /\ phase = "tracking"
       \/ OnRedo /\ phase = "undone1"
    /\ lastCall'.entry # <<>>
    /\ lastCall'.entry[1].variant = "cells_update"

\* C27 (edits that change nothing): an accepted edit whose previousValue equals
\* its newValue sets hasPendingChanges, arms the timer and sits in the pending
\* map; the flush counts it in the entry it pushes and the push empties the
\* redo stack; undoing or redoing that entry, in a run where every host
\* mutation was tracked, changes only cells of the batch's other edits.
C27_UnchangingEditsTracked ==
    [][/\ (enabled /\ CellTrackingStep) =>
             LET accepted == SubSeq(batchLog', Len(batchLog) + 1, Len(batchLog'))
             IN \A k \in DOMAIN Unchanging(accepted) :
                   LET u == Unchanging(accepted)[k]
                   IN /\ hasPendingChanges' /\ batchTimeout' = "armed"
                      /\ \E j \in DOMAIN pendingUpdates' :
                            /\ pendingUpdates'[j].key =
                                  getPendingKey(u.rowId, u.columnId)
                            /\ pendingUpdates'[j].value.newValue = u.newValue
       /\ (Unchanging(batchLog) # <<>> /\ nextUid' # nextUid) =>
             /\ lastCall'.pushed # <<>>
             /\ lastCall'.pushed[1].variant = "cells_update"
             /\ Collapses(lastCall'.pushed[1], batchLog)
             /\ lastCall'.afterPush[1].redoStack = <<>>
       /\ CellsReplayStep =>
             CellsChanged(data, lastCall'.handed[1])
                \subseteq CellsRewritten(lastCall'.entry[1])]_vars

\* After a flush that left r1.c1 at 1, one call wrote 1 into c1 and c2 of r1;
\* onUndo flushed the batch (two updates, c1 from 1 to 1) and undid it: c2 went
\* back to 0 and c1 stayed at 1.
C27_Witness ==
    /\ lastCall.op = "onUndo" /\ phase = "undone1" /\ steps = 4
    /\ lastCall.entry # <<>> /\ lastCall.entry = lastCall.pushed
    /\ lastCall.entry[1].variant = "cells_update" /\ lastCall.entry[1].count = 2
    /\ Len(Unchanging(lastCall.entry[1].updates)) = 1
    /\ Unchanging(lastCall.entry[1].updates)[1].columnId = "c1"
    /\ Unchanging(lastCall.entry[1].updates)[1].newValue = 1
    /\ \E i \in DOMAIN data :
          /\ getRowId(data[i]) = lastCall.entry[1].updates[1].rowId
          /\ data[i].cells = [c1 |-> 1, c2 |-> 0]

\* A flush that materialised a Command: the call pushed a cells_update entry.
FlushPushed(call) ==
    \E j \in DOMAIN call.pushed : call.pushed[j].variant = "cells_update"

\* C28 (one debounce timer): at most one timer is outstanding at any time, and
\* one is outstanding exactly when batchTimeoutRef holds an armed handle; an
\* accepted trackCellsUpdate leaves exactly one outstanding, whether or not one
\* was outstanding before it; a timer callback, onUndo, trackRowsAdd or
\* trackRowsDelete whose flush pushed a cells_update entry leaves none
\* outstanding and the handle null.
C28_AtMostOneTimer ==
    [][/\ timers' \in {0, 1}
       /\ (batchTimeout' = "armed") <=> (timers' = 1)
       /\ (CellTrackingStep /\ enabled) =>
             timers' = 1 /\ batchTimeout' = "armed"
       /\ ((TimerFires \/ OnUndo \/ RowTrackingStep) /\ FlushPushed(lastCall')) =>
             timers' = 0 /\ batchTimeout' = "null"]_vars

\* Two trackCellsUpdate calls on different rows armed and re-armed the timer;
\* the onUndo that followed flushed both edits into one entry and left no
\* timer outstanding.
C28_Witness ==
    /\ lastCall.op = "onUndo" /\ FlushPushed(lastCall)
    /\ \E a, b \in DOMAIN lastCall.pushed[1].updates :
          lastCall.pushed[1].updates[a].rowId # lastCall.pushed[1].updates[b].rowId
    /\ timers = 0 /\ batchTimeout = "null"

\* The hook and its host with the browser's timer queue: the host makes at
\* most MaxLiveSteps calls, and a timer that stays outstanding is eventually
\* run.
NextLive ==
    \/ steps < MaxLiveSteps /\ CellTrackingStep
    \/ steps < MaxLiveSteps /\ HostAddRow
    \/ steps < MaxLiveSteps /\ \E S \in DeleteSelections : HostDeleteRows(S)
    \/ steps < MaxLiveSteps /\ OnUndo
    \/ steps < MaxLiveSteps /\ OnRedo
    \/ steps < MaxLiveSteps /\ OnClear
    \/ steps < MaxLiveSteps /\ \E m \in 0..MaxHistoryProp : SetMaxHistory(m)
    \/ steps < MaxLiveSteps /\ SetEnabled
    \/ steps < MaxLiveSteps /\ Unmount
    \/ TimerFires

SpecLive == Init /\ [][NextLive]_vars /\ WF_vars(TimerFires)

\* C29 (eventual commit): while the hook is mounted, the edits accepted by
\* trackCellsUpdate and not yet flushed (batchLog) do not stay unflushed for
\* ever, unless the hook is torn down; and the only steps that end their wait
\* are onClear and a flush that pushes one new cells_update entry holding
\* exactly one update for every edited cell.
C29_EventualCommit ==
    /\ (batchLog # <<>> /\ mounted) ~> (batchLog = <<>> \/ ~mounted)
    /\ [][(batchLog # <<>> /\ batchLog' = <<>>) =>
             \/ lastCall'.op = "onClear" /\ pushLog' = pushLog
             \/ /\ Len(pushLog') > Len(pushLog)
                /\ pushLog'[Len(pushLog) + 1].variant = "cells_update"
                /\ Collapses(pushLog'[Len(pushLog) + 1], batchLog)
                /\ \A j \in DOMAIN pushLog :
                      pushLog[j].uid # pushLog'[Len(pushLog) + 1].uid]_vars

\* After the last call of the host, the timer fired on its own and pushed the
\* pending batch.
C29_Witness ==
    /\ lastCall.op = "timer" /\ FlushPushed(lastCall)
    /\ steps = MaxLiveSteps + 1
    /\ batchLog = <<>> /\ pendingUpdates = <<>> /\ timers = 0
    /\ pushLog[Len(pushLog)] = lastCall.pushed[1]

\* The entries pushed by the step.
PushedByStep == SubSeq(pushLog', Len(pushLog) + 1, Len(pushLog'))

\* The hook as a timer callback would find it, had a timer been left armed.
HookWithTimer == [Hook EXCEPT !.timers = 1, !.batchTimeout = "armed"]

\* C30 (one Command per edit, empty flush is a no-op): in every interleaving
\* of the entry points and the timer, the pending map holds exactly the cells
\* of the accepted edits that no pushed entry holds yet; a step pushes at most
\* one cells_update entry, with a uid no earlier entry has, holding one update
\* for each of those cells, and leaves the map empty, so no later entry holds
\* them again; with an empty map a step pushes no cells_update entry, and
\* flushPendingUpdates, called directly or by a timer callback, pushes nothing,
\* notifies no listener and leaves both stacks as they are.
C30_OneCommandPerEdit ==
    [][/\ Cardinality(CellsOf(batchLog')) = Len(pendingUpdates')
       /\ CellsOf(batchLog') =
             {<<pendingUpdates'[j].value.rowId, pendingUpdates'[j].value.columnId>> :
                 j \in DOMAIN pendingUpdates'}
       /\ Len(CellsUpdatesIn(PushedByStep)) <= 1
       /\ CellsUpdatesIn(PushedByStep) # <<>> =>
             /\ pendingUpdates # <<>>
             /\ Collapses(CellsUpdatesIn(PushedByStep)[1], batchLog)
             /\ \A j \in DOMAIN pushLog :
                   pushLog[j].uid # CellsUpdatesIn(PushedByStep)[1].uid
             /\ pendingUpdates' = <<>> /\ batchLog' = <<>>
       /\ pendingUpdates' = <<>> =>
             /\ flushPendingUpdates(Hook, maxHistory)' = Hook'
             /\ timerCallback(HookWithTimer, maxHistory)' = Hook']_vars

\* A cell was edited and the edit flushed into an entry; the same cell was
\* edited again and the timer flushed that edit into a second entry, with
\* another uid; nothing is pending, so a further flush would find the map
\* empty.
C30_Witness ==
    /\ lastCall.op = "timer" /\ FlushPushed(lastCall)
    /\ Len(CellsUpdatesIn(pushLog)) = 2
    /\ CellsOf(CellsUpdatesIn(pushLog)[1].updates)
          = CellsOf(CellsUpdatesIn(pushLog)[2].updates)
    /\ CellsUpdatesIn(pushLog)[1].uid # CellsUpdatesIn(pushLog)[2].uid
    /\ CellsUpdatesIn(pushLog)[2] = lastCall.pushed[1]
    /\ pendingUpdates = <<>> /\ batchLog = <<>>

(* ------------------------------------------------------------------ *)
(* The track entry points called with lists of any length              *)
(* ------------------------------------------------------------------ *)

\* Row and column ids of this host; "a\\0b" and "b\\0c" hold the separator of
\* getPendingKey, so that getPendingKey("a\\0b", "c") = getPendingKey("a", "b\\0c").
TrackRowIds == <<"a", "a\\0b">>
TrackColumns == <<"c", "b\\0c">>
TrackFreshIds == <<"n1", "n2">>

TrackCells == [c \in Range(TrackColumns) |-> 0]

\* One edit of the host: the row index, the column and the value written.
TrackEdits == [i : DOMAIN TrackRowIds, col : Range(TrackColumns), value : {1}]

\* The lists of edits handed to one trackCellsUpdate call: none, one or two.
TrackEditLists ==
    {<<>>} \cup {<<e>> : e \in TrackEdits}
           \cup {<<e, f>> : e \in TrackEdits, f \in TrackEdits}

\* The host writes the edits into arr one after the other; each update carries
\* as previousValue the value the cell held just before that edit.
RECURSIVE applyEdits(_, _)
applyEdits(arr, edits) ==
    IF edits = <<>> THEN [data |-> arr, updates |-> <<>>]
    ELSE LET e == Head(edits)
             row == arr[e.i]
             u == [rowId |-> getRowId(row), columnId |-> e.col,
                   previousValue |-> row.cells[e.col], newValue |-> e.value]
             rest == applyEdits([arr EXCEPT ![e.i] = setCell(row, e.col, e.value)],
                                Tail(edits))
         IN [data |-> rest.data, updates |-> <<u>> \o rest.updates]

InitTrack ==
    /\ undoStack = <<>>
    /\ redoStack = <<>>
    /\ hasPendingChanges = FALSE
    /\ pendingUpdates = <<>>
    /\ batchTimeout = "null"
    /\ timers = 0
    /\ listeners = HookListeners
    /\ keydown = NoKey
    /\ data = [i \in DOMAIN TrackRowIds |-> Row(TrackRowIds[i], TrackCells)]
    /\ maxHistory = MaxHistoryProp
    /\ enabled = TRUE
    /\ mounted = TRUE
    /\ nextUid = 1
    /\ freshUsed = 0
    /\ lastCall = NoCall
    /\ batchLog = <<>>
    /\ pushLog = <<>>
    /\ undoLog = <<>>
    /\ phase = "track"
    /\ afterOp = data
    /\ steps = 0

\* The host writes the edits (rows still in its array), then hands the list of
\* updates, possibly empty, to trackCellsUpdate.
TrackCellsUpdate(edits) ==
    /\ steps < MaxTrackSteps
    /\ \A k \in DOMAIN edits : edits[k].i \in DOMAIN data
    /\ LET r == applyEdits(data, edits)
       IN /\ Commit(trackCellsUpdate(Hook, r.updates, enabled),
                    "trackCellsUpdate", <<>>, <<>>, <<>>)
          /\ data' = r.data
          /\ afterOp' = r.data
          /\ batchLog' = batchLog \o r.updates
    /\ UNCHANGED <<keydown, maxHistory, enabled, mounted, freshUsed, undoLog, phase>>

\* The host appends n new rows (n may be 0), then hands them to trackRowsAdd.
TrackRowsAdd(n) ==
    /\ steps < MaxTrackSteps
    /\ freshUsed + n <= Len(TrackFreshIds)
    /\ LET rows == [k \in 1..n |-> Row(TrackFreshIds[freshUsed + k], TrackCells)]
           h == trackRowsAdd(Hook, rows, enabled, maxHistory)
       IN /\ Commit(h, "trackRowsAdd", <<>>, <<>>, <<>>)
          /\ data' = data \o rows
          /\ afterOp' = data \o rows
          /\ batchLog' = IF h.pendingUpdates = <<>> THEN <<>> ELSE batchLog
    /\ freshUsed' = freshUsed + n
    /\ UNCHANGED <<keydown, maxHistory, enabled, mounted, undoLog, phase>>

\* The host removes its first n rows (n may be 0), then hands them to
\* trackRowsDelete.
TrackRowsDelete(n) ==
    /\ steps < MaxTrackSteps
    /\ n <= Len(data)
    /\ LET rows == SubSeq(data, 1, n)
           newData == SubSeq(data, n + 1, Len(data))
           h == trackRowsDelete(Hook, rows, enabled, maxHistory)
       IN /\ Commit(h, "trackRowsDelete", <<>>, <<>>, <<>>)
          /\ data' = newData
          /\ afterOp' = newData
          /\ batchLog' = IF h.pendingUpdates = <<>> THEN <<>> ELSE batchLog
    /\ UNCHANGED <<keydown, maxHistory, enabled, mounted, freshUsed, undoLog, phase>>

NextTrack ==
    \/ \E edits \in TrackEditLists : TrackCellsUpdate(edits)
    \/ \E n \in 0..Len(TrackFreshIds) : TrackRowsAdd(n)
    \/ \E n \in 0..Len(TrackRowIds) : TrackRowsDelete(n)
    \/ steps < MaxTrackSteps /\ TimerFires
    \/ steps < MaxTrackSteps /\ OnUndo
    \/ steps < MaxTrackSteps /\ OnRedo

SpecTrack == InitTrack /\ [][NextTrack]_vars

\* C31 (count of an entry): for every list of updates, also one whose row and
\* column ids hold the separator of getPendingKey, the count of a pushed
\* cells_update entry is the number of distinct (rowId, columnId) pairs tracked
\* since the previous flush, and the count of a pushed rows_add / rows_delete
\* entry is the number of rows handed to the track call.
C31_CountIsDistinctCells ==
    [][\A j \in DOMAIN PushedByStep :
          LET e == PushedByStep[j]
          IN /\ e.variant = "cells_update" =>
                   e.count = Cardinality(CellsOf(batchLog))
             /\ e.variant = "rows_add" => e.count = freshUsed' - freshUsed
             /\ e.variant = "rows_delete" => e.count = Len(data) - Len(data')]_vars

\* The entries the two stacks hold together.
HistorySize == Len(undoStack) + Len(redoStack)

\* C32 (joint cap): the history is empty at the start, and every step that
\* leaves maxHistory as it is and starts with at most maxHistory entries on the
\* two stacks together ends with at most maxHistory on them together; so while
\* maxHistory stays fixed the two stacks never hold more than maxHistory
\* entries, and a redo leaves the undo stack within the cap.
C32_JointCap ==
    [][(maxHistory' = maxHistory /\ HistorySize <= maxHistory) =>
          /\ HistorySize' <= maxHistory
          /\ Len(undoStack') <= maxHistory
          /\ (OnRedo /\ lastCall'.entry # <<>>) =>
                /\ Len(undoStack') = Len(undoStack) + 1
                /\ HistorySize' = HistorySize]_vars

\* With maxHistory never changed, more entries were pushed than the cap
\* allows (the oldest was evicted), the newest was undone and redo brought it
\* back: the undo stack is at the cap again and the redo stack is empty.
C32_Witness ==
    /\ phase = "redone"
    /\ lastCall.op = "onRedo" /\ lastCall.entry # <<>>
    /\ Len(pushLog) > maxHistory
    /\ Len(undoStack) = maxHistory /\ redoStack = <<>>

\* C33 (timer iff pending): while the hook is mounted, between any two of its
\* operations a debounce timer is outstanding exactly when the pending map
\* holds an edit, and batchTimeoutRef holds a handle exactly then.
C33_TimerIffPending ==
    mounted =>
       /\ (timers = 1) <=> (pendingUpdates # <<>>)
       /\ (batchTimeout # "null") <=> (pendingUpdates # <<>>)

\* A batch was flushed by a call other than the timer, which left no timer
\* behind; later edits of two cells armed a new one.
C33_Witness ==
    /\ mounted /\ lastCall.op = "trackCellsUpdate"
    /\ pushLog # <<>> /\ pushLog[Len(pushLog)].variant = "cells_update"
    /\ undoLog # <<>>
    /\ Len(pendingUpdates) = 2 /\ timers = 1 /\ batchTimeout = "armed"

(* ------------------------------------------------------------------ *)
(* Unwinding a history: tracked mutations, then every undo, then every *)
(* redo                                                                 *)
(* ------------------------------------------------------------------ *)

\* The host mutates and tracks (the timer may fire in between), then the user
\* undoes until nothing is left to undo, then redoes until nothing is left to
\* redo.
NextUnwind ==
    \/ phase = "tracking" /\ steps < MaxUnwindSteps /\ CellTrackingStep
    \/ phase = "tracking" /\ steps < MaxUnwindSteps /\ HostAddRow
    \/ phase = "tracking" /\ steps < MaxUnwindSteps
          /\ \E S \in DeleteSelections : HostDeleteRows(S)
    \/ phase = "tracking" /\ steps < MaxUnwindSteps /\ TimerFires
    \/ /\ phase \in {"tracking", "undone1", "undoing"}
       /\ undoStack # <<>> \/ pendingUpdates # <<>>
       /\ OnUndoCall
    \/ /\ phase \in {"undone1", "undoing", "redone", "other"}
       /\ undoStack = <<>> \/ phase \in {"redone", "other"}
       /\ redoStack # <<>>
       /\ OnRedoCall

SpecUnwind == Init /\ [][NextUnwind]_vars

\* The rows of an array, with their cell values, as a set.
RowSet(arr) == {arr[i] : i \in DOMAIN arr}

InitialData == [i \in DOMAIN InitialRowIds |-> Row(InitialRowIds[i], NewCells)]

\* C34 (full unwind): from an empty history, after n <= maxHistory entries
\* were pushed by tracked mutations of a host that adopts every array it is
\* handed, the data after n onUndo calls holds the rows of the initial array
\* with their initial cell values, and the data after n further onRedo calls
\* holds the rows, with their cell values, of the array before the first undo.
C34_FullUnwind ==
    (pushLog # <<>> /\ Len(pushLog) <= maxHistory) =>
       /\ (phase \in {"undone1", "undoing"} /\ undoStack = <<>>) =>
             /\ Len(undoLog) = Len(pushLog)
             /\ RowSet(data) = RowSet(InitialData)
       /\ (phase \in {"redone", "other"} /\ redoStack = <<>>) =>
             /\ undoStack = pushLog
             /\ RowSet(data) = RowSet(afterOp)

\* A cell edit and a row deletion (and perhaps a row insertion) left as many
\* entries as maxHistory allows, at least two; every one of them was undone
\* and then redone.
C34_Witness ==
    /\ phase = "other" /\ redoStack = <<>> /\ lastCall.op = "onRedo"
    /\ Len(pushLog) = maxHistory /\ Len(pushLog) >= 2
    /\ undoStack = pushLog
    /\ Len(undoLog) = Len(pushLog)
    /\ \E j \in DOMAIN pushLog : pushLog[j].variant = "rows_delete"
    /\ \E j \in DOMAIN pushLog : pushLog[j].variant = "cells_update"
    /\ RowSet(data) # RowSet(InitialData)

\* No row id occurs twice in arr.
UniqueRowIds(arr) ==
    \A i, j \in DOMAIN arr : getRowId(arr[i]) = getRowId(arr[j]) => i = j

\* C35 (no duplicate rows): the host starts from unique row ids, gives every
\* added row a fresh id, tracks its mutations and adopts every array handed to
\* onDataChange; after any sequence of track calls, timer firings, onUndo and
\* onRedo (and of onClear, prop changes and unmount) no row id occurs twice in
\* the data, and an entry whose replay appends rows appends none that the
\* array it is given already holds.
C35_NoDuplicateRows ==
    /\ UniqueRowIds(data)
    /\ lastCall.handed # <<>> => UniqueRowIds(lastCall.handed[1])

\* A row was deleted while another stayed, and onUndo put it back at the end
\* of the array, after the row that was still there.
C35_Witness ==
    /\ lastCall.op = "onUndo"
    /\ lastCall.entry # <<>> /\ lastCall.entry[1].variant = "rows_delete"
    /\ lastCall.handed # <<>> /\ data = lastCall.handed[1]
    /\ Len(data) > 1
    /\ getRowId(data[Len(data)]) = lastCall.entry[1].rowIds[1]
    /\ getRowId(data[1]) # getRowId(data[Len(data)])

\* The undo of the entries that would have been pushed had every edit of log
\* been flushed on its own (one cells_update entry per edit), newest first.
RECURSIVE SeparateUndo(_, _)
SeparateUndo(log, arr) ==
    IF log = <<>> THEN arr
    ELSE SeparateUndo(SubSeq(log, 1, Len(log) - 1),
                      cellsUpdateUndo(<<log[Len(log)]>>, arr))

\* The redo of the same entries, oldest first.
RECURSIVE SeparateRedo(_, _)
SeparateRedo(log, arr) ==
    IF log = <<>> THEN arr
    ELSE SeparateRedo(Tail(log), cellsUpdateRedo(<<Head(log)>>, arr))

\* C36 (batched and separate replay agree): when a batch of tracked edits, each
\* carrying as previousValue the value its cell held just before it, is flushed
\* as one cells_update entry, undoing that entry yields the same data as
\* undoing, newest first, one entry per tracked edit, and redoing it yields the
\* same data as redoing those entries oldest first.
C36_BatchedAsSeparate ==
    [][(nextUid' # nextUid /\ batchLog # <<>>) =>
          LET flushed == CellsUpdatesIn(lastCall'.pushed)
          IN /\ flushed # <<>>
             /\ \A i \in DOMAIN flushed : \A arr \in {data, data', afterOp} :
                   LET undone == entryUndo(flushed[i], arr)
                   IN /\ undone = SeparateUndo(batchLog, arr)
                      /\ entryRedo(flushed[i], undone) =
                            SeparateRedo(batchLog, undone)
                      /\ entryRedo(flushed[i], arr) = SeparateRedo(batchLog, arr)
      ]_vars

\* The timer flushed a batch of two calls, the first writing 1 into c1 and c2
\* and the second writing 2 into c1: one entry with two updates, c1 from 0 to 2
\* and c2 from 0 to 1.
C36_Witness ==
    /\ lastCall.op = "timer" /\ Len(lastCall.pushed) = 1
    /\ lastCall.pushed[1].variant = "cells_update"
    /\ lastCall.pushed[1].count = 2
    /\ \E i, j \in DOMAIN lastCall.pushed[1].updates :
          LET u == lastCall.pushed[1].updates[i]
              v == lastCall.pushed[1].updates[j]
          IN /\ u.rowId = v.rowId
             /\ u.columnId = "c1" /\ u.previousValue = 0 /\ u.newValue = 2
             /\ v.columnId = "c2" /\ v.previousValue = 0 /\ v.newValue = 1

\* C37 (nothing is committed while disabled): in every step taken while
\* enabled is false, other than a call of onClear, no entry is pushed onto the
\* undo stack and the redo stack stays as it is, also when a debounce timer
\* armed before enabled was turned off fires.
C37_DisabledCommitsNothing ==
    [][(~enabled /\ ~enabled' /\ lastCall'.op # "onClear") =>
          /\ pushLog' = pushLog
          /\ undoStack' = undoStack
          /\ redoStack' = redoStack
      ]_vars

\* The step is a track call that was handed an empty list.
EmptyTrackCall ==
    \/ lastCall'.op = "trackCellsUpdate" /\ batchLog' = batchLog
    \/ lastCall'.op \in {"trackRowsAdd", "trackRowsDelete"} /\ Len(data') = Len(data)

\* C38 (an empty track call changes nothing): trackCellsUpdate([]) does not
\* set hasPendingChanges and neither arms nor restarts the timer, and
\* trackRowsAdd([]) / trackRowsDelete([]) push no entry, do not flush the
\* pending batch and do not clear the redo stack; no listener is notified.
C38_EmptyListNoEffect ==
    [][EmptyTrackCall =>
          /\ UNCHANGED <<undoStack, redoStack, hasPendingChanges, pendingUpdates,
                         batchTimeout, timers, nextUid, pushLog, data>>
          /\ lastCall'.pushed = <<>>
          /\ lastCall'.notified = 0
      ]_vars

\* trackRowsAdd([]) was called while edits were pending behind an armed timer:
\* the edits are still pending, the timer is still armed and nothing was pushed.
C38_Witness ==
    /\ lastCall.op = "trackRowsAdd"
    /\ pendingUpdates # <<>> /\ hasPendingChanges
    /\ timers = 1 /\ batchTimeout = "armed"
    /\ undoStack = <<>> /\ pushLog = <<>>

====
